---- MODULE Spec2Model ----
(***************************************************************************)
(* Model of the quiz authoring tool (vtb80/quiz-dev): the fill-in-blank    *)
(* validator and its placeholder engine, the Subject aggregate with the    *)
(* main-window and question-dialog handlers that mutate it, the document   *)
(* load/save path with its migration, and the dropdown validation path.    *)
(*                                                                         *)
(* Python strings are modelled as sequences of one-character strings, so   *)
(* that the regular expression, strip(), replace() and int() are computed  *)
(* character by character.                                                 *)
(***************************************************************************)
EXTENDS Integers, Sequences, FiniteSets, TLC

VARIABLES
    question_text,   \* validators: the question text handed to the validator
    answers,         \* validators: the other arguments of the call (answers, options, ...)
    result,          \* validators: the returned (is_valid, error_message), or NoResult
    subject,         \* MainWindow.current_subject: its lessons and questions
    disk,            \* the content of the subject's file (subject.filename)
    dialog,          \* the modal dialog that holds the grab, if any
    failures,        \* the number of document saves that have failed so far
    pc,              \* which specification runs, and the step a load / save run has reached
    form,            \* the question form: its kind and the ids of its per-slot sections
    heap,            \* the Python lists and dicts that are shared by reference, by address
    images,          \* the image files in the images folder of the subject
    tree             \* the nodes of the tree widget, each with its question children

fillVars == <<question_text, answers, result, form, heap, images, tree>>
appVars == <<subject, disk, dialog, failures>>
validatorVars == <<question_text, answers, result, pc, heap, images, tree>>
idleVars == <<question_text, answers, result, pc, form, heap, images, tree>>
vars == <<question_text, answers, result, subject, disk, dialog, failures, pc,
          form, heap, images, tree>>

(***************************************************************************)
(* Bounds of the model.                                                    *)
(***************************************************************************)
MaxPieces == 2      \* a generated question text is built from at most this many pieces
MaxKeys == 2        \* a generated answer map has at most this many keys
MaxLessonNum == 2   \* lessons are added while the next lesson number is at most this
MaxQuestionId == 2  \* questions are added while the next question id is at most this
MaxFailures == 1    \* at most this many document saves fail in one run
MaxDocLessons == 1  \* a generated document lists at most this many lessons
MaxDocQuestions == 2 \* a generated document lists at most this many questions
MaxOptions == 3     \* a generated option list has at most this many options
MaxCorrect == 3     \* a generated list of correct indices has at most this many entries

(***************************************************************************)
(* Program constants (shared/constants.py).                                *)
(***************************************************************************)
MIN_ANSWERS_FILL == 1
MAX_BLANKS_FILL == 10

(***************************************************************************)
(* Strings.                                                                *)
(***************************************************************************)
Digits == {"0", "1", "2", "3", "4", "5", "6", "7", "8", "9"}

DigitValue(c) ==
    CASE c = "0" -> 0 [] c = "1" -> 1 [] c = "2" -> 2 [] c = "3" -> 3
      [] c = "4" -> 4 [] c = "5" -> 5 [] c = "6" -> 6 [] c = "7" -> 7
      [] c = "8" -> 8 [] c = "9" -> 9

\* str.strip(): leading and trailing whitespace removed
RECURSIVE lstrip(_)
lstrip(s) == IF s # <<>> /\ Head(s) = " " THEN lstrip(Tail(s)) ELSE s

RECURSIVE rstrip(_)
rstrip(s) ==
    IF s # <<>> /\ s[Len(s)] = " " THEN rstrip(SubSeq(s, 1, Len(s) - 1)) ELSE s

strip(s) == rstrip(lstrip(s))

\* `not s or not s.strip()`
IsBlank(s) == s = <<>> \/ strip(s) = <<>>

\* s.replace(c, '')
replace(s, c) == SelectSeq(s, LAMBDA x : x # c)

\* int(s) for a string of decimal digits, most significant first
RECURSIVE int(_)
int(s) ==
    IF s = <<>> THEN 0 ELSE 10 * int(SubSeq(s, 1, Len(s) - 1)) + DigitValue(s[Len(s)])

\* int(s) raises ValueError unless s is a non-empty digit string
IsNumeral(s) == s # <<>> /\ \A i \in 1..Len(s) : s[i] \in Digits

(***************************************************************************)
(* re.findall(r'_Q(\d+)_', text): the digit groups of the non-overlapping  *)
(* matches, scanning left to right.                                        *)
(***************************************************************************)
\* the last index of the maximal run of digits starting at index i (i - 1 if none)
RECURSIVE DigitRunEnd(_, _)
DigitRunEnd(s, i) ==
    IF i <= Len(s) /\ s[i] \in Digits THEN DigitRunEnd(s, i + 1) ELSE i - 1

\* the index of the closing "_" of a match that starts at i, or 0 when none does
MatchEnd(s, i) ==
    IF i + 3 <= Len(s) /\ s[i] = "_" /\ s[i + 1] = "Q"
    THEN LET e == DigitRunEnd(s, i + 2)
         IN  IF e >= i + 2 /\ e + 1 <= Len(s) /\ s[e + 1] = "_" THEN e + 1 ELSE 0
    ELSE 0

RECURSIVE findallFrom(_, _)
findallFrom(s, i) ==
    IF i > Len(s) THEN <<>>
    ELSE LET e == MatchEnd(s, i)
         IN  IF e = 0 THEN findallFrom(s, i + 1)
             ELSE <<SubSeq(s, i + 2, e - 1)>> \o findallFrom(s, e + 1)

findall(s) == findallFrom(s, 1)

(***************************************************************************)
(* Sequence helpers.                                                       *)
(***************************************************************************)
Range(s) == {s[i] : i \in 1..Len(s)}

\* the first index at which a loop's test (a sequence of booleans) is true, or 0
FirstIndex(tests) ==
    IF \E i \in 1..Len(tests) : tests[i]
    THEN CHOOSE i \in 1..Len(tests) : tests[i] /\ \A j \in 1..(i - 1) : ~tests[j]
    ELSE 0

\* the test `not ans or not ans.strip()` over a list of answers
BlankTests(items) == [i \in 1..Len(items) |-> IsBlank(items[i])]

\* sorted(list of int)
RECURSIVE insert(_, _)
insert(x, s) ==
    IF s = <<>> THEN <<x>>
    ELSE IF x <= Head(s) THEN <<x>> \o s ELSE <<Head(s)>> \o insert(x, Tail(s))

RECURSIVE sorted(_)
sorted(s) == IF s = <<>> THEN <<>> ELSE insert(Head(s), sorted(Tail(s)))

\* list(range(1, n + 1))
range1(n) == [i \in 1..n |-> i]

(***************************************************************************)
(* Values handed to the validator.  A Python value is a record with a      *)
(* kind: "list" (items: sequence), "dict" (entries: sequence of key/value  *)
(* pairs in insertion order, keys distinct) or "other" (None, a number).   *)
(***************************************************************************)
List(items) == [kind |-> "list", items |-> items]
Dict(entries) == [kind |-> "dict", entries |-> entries]
Other == [kind |-> "other"]

keys(d) == [i \in 1..Len(d.entries) |-> d.entries[i].key]

\* (is_valid, error_message); slot and idx are the slot and the position the message names
Valid == [ok |-> TRUE, msg |-> "", slot |-> <<>>, idx |-> 0]
Invalid(m, slot, idx) == [ok |-> FALSE, msg |-> m, slot |-> slot, idx |-> idx]
NoResult == [ok |-> FALSE, msg |-> "not called", slot |-> <<>>, idx |-> 0]

(***************************************************************************)
(* QuestionValidator._validate_single_blank                                *)
(***************************************************************************)
\* a validator that does not ask for a first answer
_validate_single_blank_NoMinimum(ans) ==
    IF ans.kind # "list"
    THEN Invalid("Answers must be a list for single-blank questions", <<>>, 0)
    ELSE LET i == FirstIndex(BlankTests(ans.items))
         IN  IF i # 0 THEN Invalid("Answer is empty", <<>>, i) ELSE Valid

_validate_single_blank(ans) ==
    IF ans.kind # "list"
    THEN Invalid("Answers must be a list for single-blank questions", <<>>, 0)
    ELSE IF Len(ans.items) < MIN_ANSWERS_FILL
    THEN Invalid("Need at least 1 acceptable answer", <<>>, 0)
    ELSE LET i == FirstIndex(BlankTests(ans.items))
         IN  IF i # 0 THEN Invalid("Answer is empty", <<>>, i) ELSE Valid

(***************************************************************************)
(* QuestionValidator._validate_multi_blank                                 *)
(***************************************************************************)
\* the per-blank loop: the first blank whose answers are rejected, with its error
BlankError(item) ==
    IF item.value.kind # "list"
    THEN Invalid("Answers for blank must be a list", item.key, 0)
    ELSE IF Len(item.value.items) < MIN_ANSWERS_FILL
    THEN Invalid("Blank needs at least 1 acceptable answer", item.key, 0)
    ELSE LET i == FirstIndex(BlankTests(item.value.items))
         IN  IF i # 0 THEN Invalid("Blank answer is empty", item.key, i) ELSE Valid

PlaceholderIds(text) ==
    LET placeholders_in_text == findall(text)
    IN  [i \in 1..Len(placeholders_in_text) |-> <<"Q">> \o placeholders_in_text[i]]

MissingAnswerCheck(placeholder_ids, answer_blank_ids) ==
    FirstIndex([i \in 1..Len(placeholder_ids) |->
                    placeholder_ids[i] \notin Range(answer_blank_ids)])

\* a validator that forgets the second loop (a one-way, subset check)
MissingPlaceholderCheck_Skipped(placeholder_ids, answer_blank_ids) == 0

MissingPlaceholderCheck(placeholder_ids, answer_blank_ids) ==
    FirstIndex([i \in 1..Len(answer_blank_ids) |->
                    answer_blank_ids[i] \notin Range(placeholder_ids)])

\* a validator that only checks that the numbering starts from 1
NumberingOk_FirstOnly(answer_blank_ids) ==
    \E i \in 1..Len(answer_blank_ids) : int(replace(answer_blank_ids[i], "Q")) = 1

NumberingOk(answer_blank_ids) ==
    LET blank_numbers ==
            sorted([i \in 1..Len(answer_blank_ids) |-> int(replace(answer_blank_ids[i], "Q"))])
        expected_numbers == range1(Len(blank_numbers))
    IN  blank_numbers = expected_numbers

_validate_multi_blank(text, ans) ==
    IF ans.kind # "dict"
    THEN Invalid("Answers must be a dictionary for multi-blank questions", <<>>, 0)
    ELSE IF Len(ans.entries) = 0
    THEN Invalid("At least one blank is required", <<>>, 0)
    ELSE IF Len(ans.entries) > MAX_BLANKS_FILL
    THEN Invalid("Maximum blanks allowed", <<>>, 0)
    ELSE
    LET placeholder_ids == PlaceholderIds(text)
        answer_blank_ids == keys(ans)
        p == MissingAnswerCheck(placeholder_ids, answer_blank_ids)
        a == MissingPlaceholderCheck(placeholder_ids, answer_blank_ids)
        b == FirstIndex([i \in 1..Len(ans.entries) |-> ~BlankError(ans.entries[i]).ok])
    IN  IF Len(placeholder_ids) = 0
        THEN Invalid("No blanks found in question text", <<>>, 0)
        ELSE IF p # 0
        THEN Invalid("Blank found in question text but no answers provided",
                     placeholder_ids[p], 0)
        ELSE IF a # 0
        THEN Invalid("Answers provided but blank not found in question text",
                     answer_blank_ids[a], 0)
        ELSE IF \E i \in 1..Len(answer_blank_ids) :
                    ~IsNumeral(replace(answer_blank_ids[i], "Q"))
        THEN Invalid("raise ValueError", <<>>, 0)
        ELSE IF ~NumberingOk(answer_blank_ids)
        THEN Invalid("Blank numbering must be consecutive starting from 1", <<>>, 0)
        ELSE IF b # 0 THEN BlankError(ans.entries[b])
        ELSE Valid

(***************************************************************************)
(* QuestionValidator.validate_fill_in_blank                                *)
(***************************************************************************)
validate_fill_in_blank(text, ans) ==
    IF IsBlank(text)
    THEN Invalid("Question text is required", <<>>, 0)
    ELSE LET is_multi_blank == ans.kind = "dict"
         IN  IF is_multi_blank
             THEN _validate_multi_blank(text, ans)
             ELSE _validate_single_blank(ans)

(***************************************************************************)
(* Data model (shared/models.py).                                          *)
(*                                                                         *)
(* A lesson id and a lessonId are strings (character sequences); None in   *)
(* such a field is the sequence None below, which is no character          *)
(* sequence.  A question id is an integer and enabled a boolean.  Every    *)
(* other field holds a value that the model code only copies; it is        *)
(* modelled by the JSON text of the value, "null" for None.                *)
(***************************************************************************)
None == <<"None">>
DEFAULT_IMAGE_SCALE == "50"
DEFAULT_LESSON_ID_PREFIX == "L"
OTHERS_CATEGORY == "Others"

EnvelopeFields ==
    {"id", "type", "lessonId", "enabled", "questionImage", "questionImageScale"}

\* a factory that takes every type it does not know for a multiple choice
ClassOf_UnknownIsMultipleChoice(qtype) ==
    CASE qtype = "multiple_choice_multiple" -> "MultipleChoiceMultipleQuestion"
      [] qtype = "true_false" -> "TrueFalseQuestion"
      [] qtype = "fill_in_blank" -> "FillInBlankQuestion"
      [] qtype = "matching" -> "MatchingQuestion"
      [] qtype = "reordering" -> "ReorderingQuestion"
      [] qtype = "reading_comprehension" -> "ReadingComprehensionQuestion"
      [] OTHER -> "MultipleChoiceQuestion"

\* the class Question.from_dict routes a type string to
ClassOf(qtype) ==
    CASE qtype = "multiple_choice" -> "MultipleChoiceQuestion"
      [] qtype = "multiple_choice_multiple" -> "MultipleChoiceMultipleQuestion"
      [] qtype = "true_false" -> "TrueFalseQuestion"
      [] qtype = "fill_in_blank" -> "FillInBlankQuestion"
      [] qtype = "matching" -> "MatchingQuestion"
      [] qtype = "reordering" -> "ReorderingQuestion"
      [] qtype = "reading_comprehension" -> "ReadingComprehensionQuestion"
      [] OTHER -> "Question"

\* the fields each dataclass adds to the envelope
PayloadFields(cls) ==
    CASE cls = "MultipleChoiceQuestion" ->
            {"question", "options", "correct", "optionImages", "optionImageScale"}
      [] cls = "MultipleChoiceMultipleQuestion" ->
            {"question", "options", "correct", "optionImages", "optionImageScale"}
      [] cls = "TrueFalseQuestion" -> {"question", "correct"}
      [] cls = "FillInBlankQuestion" -> {"question", "correct"}
      [] cls = "MatchingQuestion" -> {"question", "pairs", "correct"}
      [] cls = "ReorderingQuestion" -> {"question", "items"}
      [] cls = "ReadingComprehensionQuestion" -> {"passage", "passageId", "questions"}
      [] OTHER -> {}

\* the default each from_dict gives to data.get, and each dataclass to a field left out
FieldDefault(cls, f) ==
    CASE f = "id" -> 0
      [] f = "lessonId" -> None
      [] f = "enabled" -> TRUE
      [] f = "questionImage" -> "null"
      [] f = "questionImageScale" -> DEFAULT_IMAGE_SCALE
      [] f = "optionImages" -> "null"
      [] f = "optionImageScale" -> DEFAULT_IMAGE_SCALE
      [] f \in {"question", "passage", "passageId"} -> "\"\""
      [] f \in {"options", "pairs", "items", "questions"} -> "[]"
      [] f = "correct" ->
            (CASE cls \in {"MultipleChoiceQuestion", "TrueFalseQuestion"} -> "0"
               [] cls = "MatchingQuestion" -> "{}"
               [] OTHER -> "[]")

\* the type string __post_init__ forces on an instance of a subclass
TypeOfClass(cls) ==
    CASE cls = "MultipleChoiceQuestion" -> "multiple_choice"
      [] cls = "MultipleChoiceMultipleQuestion" -> "multiple_choice_multiple"
      [] cls = "TrueFalseQuestion" -> "true_false"
      [] cls = "FillInBlankQuestion" -> "fill_in_blank"
      [] cls = "MatchingQuestion" -> "matching"
      [] cls = "ReorderingQuestion" -> "reordering"
      [] cls = "ReadingComprehensionQuestion" -> "reading_comprehension"

\* data.get(k, default)
Get(data, k, default) == IF k \in DOMAIN data THEN data[k] ELSE default

\* cls(**given): an instance of a dataclass from the keyword arguments given
NewQuestion(cls, qtype, given) ==
    [f \in {"cls"} \cup EnvelopeFields \cup PayloadFields(cls) |->
        CASE f = "cls" -> cls
          [] f = "type" -> (IF cls = "Question" THEN qtype ELSE TypeOfClass(cls))
          [] OTHER -> Get(given, f, FieldDefault(cls, f))]

\* `v is None` for the value v of field f
IsNone(f, v) ==
    CASE f = "lessonId" -> v = None
      [] f \in {"id", "enabled", "type"} -> FALSE
      [] OTHER -> v = "null"

\* Lesson(id, name, enabled)
Lesson(id, name, enabled) == [id |-> id, name |-> name, enabled |-> enabled]

\* Subject(name, filename): the name and the filename never change and are left out
Subject(lessons, questions) == [lessons |-> lessons, questions |-> questions]

(***************************************************************************)
(* Subject methods.                                                        *)
(***************************************************************************)
\* str(n) for n >= 0
RECURSIVE str(_)
str(n) ==
    LET d == <<"0", "1", "2", "3", "4", "5", "6", "7", "8", "9">>[(n % 10) + 1]
    IN  IF n < 10 THEN <<d>> ELSE str(n \div 10) \o <<d>>

\* s.zfill(width)
RECURSIVE zfill(_, _)
zfill(s, width) == IF Len(s) >= width THEN s ELSE zfill(<<"0">> \o s, width)

\* max(numbers) for a non-empty list
max(numbers) == CHOOSE m \in Range(numbers) : \A n \in Range(numbers) : n <= m

get_lesson_by_id(subj, lesson_id) ==
    LET i == FirstIndex([k \in 1..Len(subj.lessons) |-> subj.lessons[k].id = lesson_id])
    IN  IF i = 0 THEN <<>> ELSE <<subj.lessons[i]>>

\* the position of the first question with this id, or 0 (get_question_by_id is None)
get_question_by_id(subj, question_id) ==
    FirstIndex([k \in 1..Len(subj.questions) |-> subj.questions[k].id = question_id])

get_questions_by_lesson(subj, lesson_id) ==
    SelectSeq(subj.questions, LAMBDA q : q.lessonId = lesson_id)

\* a next id taken from the number of questions
get_next_question_id_Count(subj) == Len(subj.questions) + 1

get_next_question_id(subj) ==
    IF subj.questions = <<>> THEN 1
    ELSE max([k \in 1..Len(subj.questions) |-> subj.questions[k].id]) + 1

\* the numbers of the lesson ids that int() parses
LessonNumbers(subj) ==
    LET parsed == [k \in 1..Len(subj.lessons) |->
                       replace(subj.lessons[k].id, DEFAULT_LESSON_ID_PREFIX)]
        ok == SelectSeq(parsed, IsNumeral)
    IN  [k \in 1..Len(ok) |-> int(ok[k])]

NextLessonNumber(subj) ==
    IF subj.lessons = <<>> THEN 1
    ELSE IF LessonNumbers(subj) = <<>> THEN 1
    ELSE max(LessonNumbers(subj)) + 1

get_next_lesson_id(subj) ==
    <<DEFAULT_LESSON_ID_PREFIX>> \o zfill(str(NextLessonNumber(subj)), 3)

add_lesson(subj, lesson) == [subj EXCEPT !.lessons = Append(@, lesson)]

\* a remove_lesson that deletes the lesson's questions
remove_lesson_DropsQuestions(subj, lesson_id) ==
    Subject(SelectSeq(subj.lessons, LAMBDA l : l.id # lesson_id),
            SelectSeq(subj.questions, LAMBDA q : q.lessonId # lesson_id))

\* a remove_lesson that leaves the questions' lessonId alone
remove_lesson_NoCascade(subj, lesson_id) ==
    Subject(SelectSeq(subj.lessons, LAMBDA l : l.id # lesson_id), subj.questions)

remove_lesson(subj, lesson_id) ==
    Subject(SelectSeq(subj.lessons, LAMBDA l : l.id # lesson_id),
            [k \in 1..Len(subj.questions) |->
                IF subj.questions[k].lessonId = lesson_id
                THEN [subj.questions[k] EXCEPT !.lessonId = None]
                ELSE subj.questions[k]])

add_question(subj, question) == [subj EXCEPT !.questions = Append(@, question)]

remove_question(subj, question_id) ==
    [subj EXCEPT !.questions = SelectSeq(@, LAMBDA q : q.id # question_id)]

update_question(subj, question_id, updated_question) ==
    LET i == get_question_by_id(subj, question_id)
    IN  IF i = 0 THEN subj ELSE [subj EXCEPT !.questions[i] = updated_question]

(***************************************************************************)
(* Serialization (to_dict) and the document written to the file.           *)
(***************************************************************************)
\* Lesson.to_dict: asdict(self)
Lesson_to_dict(l) == l

\* a to_dict that drops the values that are falsy, not only None
Question_to_dict_DropsFalsy(q) ==
    [f \in {k \in DOMAIN q \ {"cls"} : ~IsNone(k, q[k]) /\ ~(k = "enabled" /\ q[k] = FALSE)}
        |-> q[f]]

\* Question.to_dict: asdict(self) without the keys whose value is None
Question_to_dict(q) ==
    [f \in {k \in DOMAIN q \ {"cls"} : ~IsNone(k, q[k])} |-> q[f]]

JsonList(items) == [kind |-> "list", items |-> items]
JsonAbsent == [kind |-> "absent"]

\* a document whose root is an object: the values of its keys lessons and questions
Document(lessons, questions) ==
    [kind |-> "object", lessons |-> lessons, questions |-> questions]

Subject_to_dict(subj) ==
    Document(JsonList([k \in 1..Len(subj.lessons) |-> Lesson_to_dict(subj.lessons[k])]),
             JsonList([k \in 1..Len(subj.questions) |-> Question_to_dict(subj.questions[k])]))

\* what open(filename, 'w') leaves when the write that follows it fails
Truncated == [kind |-> "truncated"]

\* DataManager.save_subject: how a save can end
SaveOutcomes == {"saved", "open failed", "write failed"}

\* the file after save_subject(subj) ended with the outcome o
FileAfterSave(subj, old, o) ==
    CASE o = "saved" -> Subject_to_dict(subj)
      [] o = "open failed" -> old
      [] o = "write failed" -> Truncated

(***************************************************************************)
(* Loading a document (DataManager.load_subject).                          *)
(*                                                                         *)
(* A parsed document is a record of its root kind; for a root object, the  *)
(* values of its keys lessons and questions.  A JSON object inside a list  *)
(* is the function from its keys to its values; any other JSON value       *)
(* inside a list is a JsonScalar.                                          *)
(***************************************************************************)
JsonDict(ks) == [kind |-> "dict", keys |-> ks]
JsonString(cs) == [kind |-> "string", chars |-> cs]
JsonNull == [kind |-> "null"]
JsonNumber == [kind |-> "number"]
JsonScalar(text) == [json |-> text]

\* isinstance(item, dict)
IsDict(item) == "json" \notin DOMAIN item

\* load_subject returned None
NoSubject == [returned |-> "None"]

\* what `for x in v` iterates over: the items of a list, the keys of a dict,
\* the characters of a string
Iterable(v) == v.kind \in {"list", "dict", "string"}

Iterate(v) ==
    CASE v.kind = "list" -> v.items
      [] v.kind = "dict" -> [k \in 1..Len(v.keys) |-> JsonScalar(v.keys[k])]
      [] v.kind = "string" -> [k \in 1..Len(v.chars) |-> JsonScalar(v.chars[k])]

\* if key not in data: data[key] = []
OrEmptyList(v) == IF v = JsonAbsent THEN JsonList(<<>>) ELSE v

\* d[k] = v on a dict
SetItem(d, k, v) == [f \in DOMAIN d \cup {k} |-> IF f = k THEN v ELSE d[f]]

\* the migration of one lesson object
MigrateLesson(lesson) ==
    IF "enabled" \notin DOMAIN lesson THEN SetItem(lesson, "enabled", TRUE) ELSE lesson

\* a migration that injects enabled = False
MigrateQuestion_Disabled(question) ==
    LET q1 == IF "enabled" \notin DOMAIN question
              THEN SetItem(question, "enabled", FALSE) ELSE question
    IN  IF "lessonId" \notin DOMAIN q1 THEN SetItem(q1, "lessonId", None) ELSE q1

\* a migration that sets the two keys whether they are present or not
MigrateQuestion_Resets(question) ==
    SetItem(SetItem(question, "enabled", TRUE), "lessonId", None)

\* the migration of one question object
MigrateQuestion(question) ==
    LET q1 == IF "enabled" \notin DOMAIN question
              THEN SetItem(question, "enabled", TRUE) ELSE question
    IN  IF "lessonId" \notin DOMAIN q1 THEN SetItem(q1, "lessonId", None) ELSE q1

Lesson_from_dict(data) ==
    Lesson(Get(data, "id", <<>>), Get(data, "name", ""), Get(data, "enabled", TRUE))

Question_from_dict(data) ==
    LET qtype == Get(data, "type", "multiple_choice")
    IN  NewQuestion(ClassOf(qtype), qtype, data)

\* Subject.from_dict on data whose lessons and questions are lists of dicts
Subject_from_dict(lessons, questions) ==
    Subject([k \in 1..Len(lessons) |-> Lesson_from_dict(lessons[k])],
            [k \in 1..Len(questions) |-> Question_from_dict(questions[k])])

\* json.load raises (JSONDecodeError), or the root is not a dict: then
\* `'lessons' not in data` raises TypeError (number, null), or it is true and
\* data['lessons'] = [] raises TypeError (list, string), or it is false and
\* data['lessons'] raises TypeError (list, string)
RootRaises(doc) == doc.kind # "object"

\* the loops over data['lessons'] and data['questions'] raise: the value is not
\* iterable, or an item is not a dict (`'enabled' not in item` raises TypeError,
\* or item['enabled'] = True does, or item.get in from_dict raises AttributeError)
ItemsRaise(v) ==
    \/ ~Iterable(v)
    \/ \E k \in 1..Len(Iterate(v)) : ~IsDict(Iterate(v)[k])

\* DataManager.load_subject on the content of the file; every exception is
\* caught and None returned
load_subject(doc) ==
    IF RootRaises(doc) THEN NoSubject
    ELSE LET lessons == OrEmptyList(doc.lessons)
             questions == OrEmptyList(doc.questions)
         IN  IF ItemsRaise(lessons) \/ ItemsRaise(questions) THEN NoSubject
             ELSE Subject_from_dict(
                      [k \in 1..Len(Iterate(lessons)) |-> MigrateLesson(Iterate(lessons)[k])],
                      [k \in 1..Len(Iterate(questions)) |->
                          MigrateQuestion(Iterate(questions)[k])])

(***************************************************************************)
(* The application: MainWindow handlers and the modal dialogs.             *)
(*                                                                         *)
(* A dialog takes the grab (grab_set), so no main-window handler runs      *)
(* while one is open.  The item selected in the tree is an input of the    *)
(* handler; the tree is refreshed only after a successful save, so the     *)
(* selection may name a lesson or question that is no longer in the        *)
(* Subject.                                                                *)
(***************************************************************************)
LessonNames == {"Capitals", OTHERS_CATEGORY}

\* the ids a tree item can carry
LessonIds == {<<DEFAULT_LESSON_ID_PREFIX>> \o zfill(str(n), 3) : n \in 1..MaxLessonNum}
QuestionIds == 1..MaxQuestionId

\* the types offered by the type selector of the dialog that the model exercises
DialogTypes == {"multiple_choice", "true_false"}

\* the forms QuestionDialog.update_form knows
FormTypes ==
    {"multiple_choice", "true_false", "fill_in_blank", "matching", "reordering",
     "reading_comprehension"}

\* what a form holds when Save is pressed: the result of its validate() and the
\* fields its collect_data() returns; the true/false form is filled in, the
\* form of any other type is left as update_form creates it, without text
FormData(qtype) ==
    CASE qtype = "true_false" ->
            { [valid |-> TRUE,  fields |-> [question |-> "\"q\"", correct |-> "0"]] }
      [] OTHER -> { [valid |-> FALSE, fields |-> [question |-> "\"\""]] }

NoDialog == [kind |-> "none"]

\* no question form is open
NoForm == [kind |-> "none"]

\* no list or dict is followed by address
NoHeap == [kind |-> "none"]

\* the form of the question dialog: the type selected, what the form holds, and
\* the title of the error box Save showed when it turned the form down ("" for none)
QuestionForm(qtype, data) ==
    [kind |-> "question", qtype |-> qtype, data |-> data, shown |-> ""]

\* update_form in add mode: the empty form of the default type
NewForm == QuestionForm("multiple_choice", [valid |-> FALSE, fields |-> [question |-> "\"\""]])

\* update_form and load_data in edit mode: the form filled from the question
LoadedForm(q) ==
    IF q["type"] = "true_false"
    THEN QuestionForm(q["type"],
            [valid |-> q["question"] # "\"\"",
             fields |-> [question |-> q["question"], correct |-> q["correct"]]])
    ELSE QuestionForm(q["type"], [valid |-> FALSE, fields |-> [question |-> "\"\""]])

\* a Save that commits without looking at what validate() returned
FormAccepted_Unvalidated(qtype, data) == qtype \in FormTypes

\* QuestionDialog.save up to the creation of the question: there is a form for
\* the type and its validate() returned valid
FormAccepted(qtype, data) == qtype \in FormTypes /\ data.valid

LessonNameList(subj) == [k \in 1..Len(subj.lessons) |-> subj.lessons[k].name]
LessonIdList(subj) == [k \in 1..Len(subj.lessons) |-> subj.lessons[k].id]

\* LessonValidator.validate_lesson_name (the names of the model are short)
validate_lesson_name(name, existing_names) ==
    /\ name # ""
    /\ ~(existing_names # <<>> /\ name \in Range(existing_names))

\* dict(zip(lesson_names, lesson_ids)).get(name): the last pair with the name wins
MappingGet(lesson_names, lesson_ids, name) ==
    LET hits == {k \in 1..Len(lesson_names) : lesson_names[k] = name}
    IN  IF hits = {} THEN None
        ELSE lesson_ids[CHOOSE k \in hits : \A j \in hits : j <= k]

\* lesson_ids[lesson_names.index(name)]: the first occurrence of the name
IndexGet(lesson_names, lesson_ids, name) ==
    lesson_ids[FirstIndex([k \in 1..Len(lesson_names) |-> lesson_names[k] = name])]

\* DataManager.save_subject(subj) ends with outcome o
SaveSubject(subj, o) ==
    /\ o # "saved" => failures < MaxFailures
    /\ disk' = FileAfterSave(subj, disk, o)
    /\ failures' = IF o = "saved" THEN failures ELSE failures + 1

\* MainWindow.add_lesson
AddLesson ==
    /\ dialog = NoDialog
    /\ NextLessonNumber(subject) <= MaxLessonNum
    /\ \E lesson_name \in LessonNames, o \in SaveOutcomes :
          /\ validate_lesson_name(lesson_name, LessonNameList(subject))
          /\ LET lesson_id == get_next_lesson_id(subject)
                 lesson == Lesson(lesson_id, lesson_name, TRUE)
             IN  /\ subject' = add_lesson(subject, lesson)
                 /\ SaveSubject(subject', o)
    /\ UNCHANGED <<dialog, idleVars>>

\* MainWindow.delete_lesson
DeleteLesson ==
    /\ dialog = NoDialog
    /\ \E lesson_id \in LessonIds, o \in SaveOutcomes :
          /\ get_lesson_by_id(subject, lesson_id) # <<>>
          /\ subject' = remove_lesson(subject, lesson_id)
          /\ SaveSubject(subject', o)
    /\ UNCHANGED <<dialog, idleVars>>

\* MainWindow.add_question: QuestionDialog(..., "add")
OpenAddQuestion ==
    /\ dialog = NoDialog
    /\ dialog' = [kind |-> "question", mode |-> "add", question_id |-> 0,
                  lesson_names |-> <<OTHERS_CATEGORY>> \o LessonNameList(subject),
                  lesson_ids |-> <<None>> \o LessonIdList(subject)]
    /\ form' = NewForm
    /\ UNCHANGED <<subject, disk, failures, validatorVars>>

\* MainWindow.edit_question: QuestionDialog(..., "edit", question)
OpenEditQuestion ==
    /\ dialog = NoDialog
    /\ \E question_id \in QuestionIds :
          /\ get_question_by_id(subject, question_id) # 0
          /\ dialog' = [kind |-> "question", mode |-> "edit", question_id |-> question_id,
                        lesson_names |-> <<OTHERS_CATEGORY>> \o LessonNameList(subject),
                        lesson_ids |-> <<None>> \o LessonIdList(subject)]
          /\ form' = LoadedForm(subject.questions[get_question_by_id(subject, question_id)])
    /\ UNCHANGED <<subject, disk, failures, validatorVars>>

\* QuestionDialog.on_type_change and the author's typing: another type, other content
EditForm ==
    /\ dialog.kind = "question"
    /\ \E qtype \in DialogTypes :
          \E data \in FormData(qtype) : form' = QuestionForm(qtype, data)
    /\ UNCHANGED <<subject, disk, dialog, failures, validatorVars>>

\* QuestionDialog.create_*: the question built from the collected fields
CreateQuestion(qtype, question_id, lesson_id, fields) ==
    NewQuestion(ClassOf(qtype), qtype,
        [f \in {"id", "lessonId"} \cup DOMAIN fields |->
            CASE f = "id" -> question_id
              [] f = "lessonId" -> lesson_id
              [] OTHER -> fields[f]])

\* the Subject after QuestionDialog.save put the new question in it
Commit(subj, mode, question_id, new_question) ==
    IF mode = "add"
    THEN add_question(subj, new_question)
    ELSE update_question(subj, question_id, new_question)

\* QuestionDialog.save
QuestionDialogSave ==
    /\ dialog.kind = "question"
    /\ \E selected_name \in Range(dialog.lesson_names), o \in SaveOutcomes :
          LET qtype == form.qtype
              data == form.data
              question_id == IF dialog.mode = "edit" THEN dialog.question_id
                             ELSE get_next_question_id(subject)
              selected_lesson_id ==
                  MappingGet(dialog.lesson_names, dialog.lesson_ids, selected_name)
              new_question ==
                  CreateQuestion(qtype, question_id, selected_lesson_id, data.fields)
          IN  /\ question_id <= MaxQuestionId
              /\ IF ~FormAccepted(qtype, data)
                 THEN \* no form for the type (the call on None raises), or a validation error
                      /\ o = "saved"
                      /\ form' = [form EXCEPT !.shown =
                                    IF qtype \in FormTypes THEN "Validation Error" ELSE "Error"]
                      /\ UNCHANGED <<subject, disk, dialog, failures>>
                 ELSE /\ subject' = Commit(subject, dialog.mode, question_id, new_question)
                      /\ SaveSubject(subject', o)
                      /\ dialog' = IF o = "saved" THEN NoDialog ELSE dialog
                      /\ form' = IF o = "saved" THEN NoForm ELSE form
    /\ UNCHANGED validatorVars

\* QuestionDialog.on_close, and cancel() of the move dialogs
CloseDialog ==
    /\ dialog # NoDialog
    /\ dialog' = NoDialog
    /\ form' = NoForm
    /\ UNCHANGED <<subject, disk, failures, validatorVars>>

\* MainWindow.move_question: the dialog that do_move belongs to
OpenMoveQuestion ==
    /\ dialog = NoDialog
    /\ \E question_id \in QuestionIds :
          /\ get_question_by_id(subject, question_id) # 0
          /\ dialog' = [kind |-> "move", question_ids |-> {question_id},
                        lesson_names |-> LessonNameList(subject) \o <<OTHERS_CATEGORY>>,
                        lesson_ids |-> LessonIdList(subject) \o <<None>>]
    /\ UNCHANGED <<subject, disk, failures, idleVars>>

\* MainWindow.bulk_move_questions: the dialog that do_bulk_move belongs to
OpenBulkMove ==
    /\ dialog = NoDialog
    /\ \E question_ids \in (SUBSET QuestionIds) \ {{}} :
          dialog' = [kind |-> "bulk_move", question_ids |-> question_ids,
                     lesson_names |-> LessonNameList(subject) \o <<OTHERS_CATEGORY>>,
                     lesson_ids |-> LessonIdList(subject) \o <<None>>]
    /\ UNCHANGED <<subject, disk, failures, idleVars>>

\* question.lessonId = new_lesson_id for the questions found among question_ids
MoveQuestions(subj, question_ids, new_lesson_id) ==
    LET found == {get_question_by_id(subj, qid) : qid \in question_ids}
    IN  Subject(subj.lessons,
                [k \in 1..Len(subj.questions) |->
                    IF k \in found
                    THEN [subj.questions[k] EXCEPT !.lessonId = new_lesson_id]
                    ELSE subj.questions[k]])

\* do_move (MainWindow.move_question)
DoMove ==
    /\ dialog.kind = "move"
    /\ \E selected_name \in Range(dialog.lesson_names), o \in SaveOutcomes :
          LET new_lesson_id == IndexGet(dialog.lesson_names, dialog.lesson_ids, selected_name)
          IN  /\ subject' = MoveQuestions(subject, dialog.question_ids, new_lesson_id)
              /\ SaveSubject(subject', o)
              /\ dialog' = IF o = "saved" THEN NoDialog ELSE dialog
    /\ UNCHANGED idleVars

\* do_bulk_move (MainWindow.bulk_move_questions)
DoBulkMove ==
    /\ dialog.kind = "bulk_move"
    /\ \E selected_name \in Range(dialog.lesson_names), o \in SaveOutcomes :
          LET new_lesson_id == IndexGet(dialog.lesson_names, dialog.lesson_ids, selected_name)
          IN  /\ subject' = MoveQuestions(subject, dialog.question_ids, new_lesson_id)
              /\ SaveSubject(subject', o)
              /\ dialog' = IF o = "saved" THEN NoDialog ELSE dialog
    /\ UNCHANGED idleVars

\* remove_question for each id of a selection
RemoveQuestions(subj, question_ids) ==
    Subject(subj.lessons, SelectSeq(subj.questions, LAMBDA q : q.id \notin question_ids))

\* image_helper.delete_question_images: the files of the images folder whose
\* name starts with q<question_id>_ are removed
delete_question_images(files, question_id) ==
    {f \in files : f.question_id # question_id}

\* the loop of bulk_delete_questions over the ids selected, for the files
DeleteImagesOf(files, question_ids) ==
    {f \in files : \A question_id \in question_ids :
                       f \in delete_question_images(files, question_id)}

\* MainWindow.delete_question
DeleteQuestion ==
    /\ dialog = NoDialog
    /\ \E question_id \in QuestionIds, o \in SaveOutcomes :
          /\ subject' = remove_question(subject, question_id)
          /\ SaveSubject(subject', o)
          /\ images' = IF o = "saved" THEN delete_question_images(images, question_id)
                       ELSE images
    /\ UNCHANGED <<dialog, question_text, answers, result, pc, form, heap, tree>>

\* MainWindow.bulk_delete_questions
BulkDeleteQuestions ==
    /\ dialog = NoDialog
    /\ \E question_ids \in (SUBSET QuestionIds) \ {{}}, o \in SaveOutcomes :
          /\ subject' = RemoveQuestions(subject, question_ids)
          /\ images' = DeleteImagesOf(images, question_ids)
          /\ SaveSubject(subject', o)
    /\ UNCHANGED <<dialog, question_text, answers, result, pc, form, heap, tree>>

\* DataManager.create_subject: an empty Subject, saved
EmptySubject == Subject(<<>>, <<>>)

Init ==
    /\ subject = EmptySubject
    /\ disk = Subject_to_dict(EmptySubject)
    /\ dialog = NoDialog
    /\ failures = 0
    /\ heap = NoHeap
    /\ images = {}
    /\ tree = <<>>
    /\ question_text = <<>>
    /\ answers = Other
    /\ result = NoResult
    /\ form = NoForm
    /\ pc = "app"

Next ==
    \/ AddLesson
    \/ DeleteLesson
    \/ OpenAddQuestion
    \/ OpenEditQuestion
    \/ EditForm
    \/ QuestionDialogSave
    \/ CloseDialog
    \/ OpenMoveQuestion
    \/ OpenBulkMove
    \/ DoMove
    \/ DoBulkMove
    \/ DeleteQuestion
    \/ BulkDeleteQuestions

Spec == Init /\ [][Next]_vars

(***************************************************************************)
(* Claims on the Subject, checked under Spec.                              *)
(***************************************************************************)
LessonPresent(subj, lesson_id) == get_lesson_by_id(subj, lesson_id) # <<>>

\* before and after differ at most in lessonId
SameButLessonId(before, after) ==
    /\ DOMAIN after = DOMAIN before
    /\ \A f \in DOMAIN before \ {"lessonId"} : after[f] = before[f]

\* the effect the claim gives remove_lesson(L), from subject to subject'
Cascaded(L) ==
    /\ LessonPresent(subject, L)
    /\ ~LessonPresent(subject', L)
    /\ Len(subject'.questions) = Len(subject.questions)
    /\ \A k \in 1..Len(subject.questions) :
          /\ SameButLessonId(subject.questions[k], subject'.questions[k])
          /\ subject.questions[k].lessonId = L => subject'.questions[k].lessonId = None
          /\ subject.questions[k].lessonId # L =>
                subject'.questions[k].lessonId = subject.questions[k].lessonId

\* C4: deleting lesson L removes it from Subject.lessons, sets lessonId to null on
\* every question that was assigned to L, leaves every other question's lessonId
\* alone and keeps the list of questions (ids, order, payloads) as it was.
C4_RemoveLessonCascades == [][DeleteLesson => \E L \in LessonIds : Cascaded(L)]_vars

\* delete_lesson ran on a lesson that had a question and the save failed: the file
\* still holds the lesson and the question assigned to it, the Subject has lost the
\* lesson and kept the question, unassigned, next to a question it left alone
C4_Witness ==
    /\ disk.kind = "object"
    /\ Len(disk.questions.items) = 2 /\ Len(subject.questions) = 2
    /\ "lessonId" \in DOMAIN disk.questions.items[1]
    /\ \E k \in 1..Len(disk.lessons.items) :
          /\ disk.questions.items[1].lessonId = disk.lessons.items[k].id
          /\ ~LessonPresent(subject, disk.lessons.items[k].id)
    /\ subject.questions[1].id = disk.questions.items[1].id
    /\ subject.questions[1].lessonId = None
    /\ subject.questions[2].lessonId # None
    /\ Len(subject.lessons) + 1 = Len(disk.lessons.items)

\* C5: every question's lessonId is null or the id of a lesson in Subject.lessons.
C5_ReferentialIntegrity ==
    \A k \in 1..Len(subject.questions) :
        \/ subject.questions[k].lessonId = None
        \/ LessonPresent(subject, subject.questions[k].lessonId)

\* a lesson was deleted and another added since question 1 was saved under L001:
\* question 1 is unassigned, question 2 is assigned to the lesson that remains
C5_Witness ==
    /\ Len(subject.questions) = 2
    /\ subject.questions[1].lessonId = None
    /\ subject.questions[2].lessonId # None
    /\ LessonPresent(subject, subject.questions[2].lessonId)
    /\ Len(subject.lessons) = 1
    /\ NextLessonNumber(subject) > 2

\* C6: no two questions of Subject.questions share an id.
C6_UniqueQuestionIds ==
    \A j, k \in 1..Len(subject.questions) :
        subject.questions[j].id = subject.questions[k].id => j = k

\* a question was added after question 1 was removed: the ids in use are not 1..n
C6_Witness ==
    /\ Len(subject.questions) = 1
    /\ subject.questions[1].id = 2
    /\ get_next_question_id(subject) = 3


(***************************************************************************)
(* Inputs of the validator specification.                                  *)
(***************************************************************************)
Pieces ==
    { <<"_", "Q", "1", "_">>, <<"_", "Q", "2", "_">>, <<"_", "Q", "3", "_">>,
      <<"_", "Q", "0", "1", "_">>, <<"Q", "2", "_">>, <<"x">>, <<" ">> }

RECURSIVE Concat(_)
Concat(ps) == IF ps = <<>> THEN <<>> ELSE Head(ps) \o Concat(Tail(ps))

SeqsUpTo(S, n) == UNION {[1..k -> S] : k \in 0..n}

TextPool == {Concat(ps) : ps \in SeqsUpTo(Pieces, MaxPieces)}

KeyPool == { <<"Q", "1">>, <<"Q", "2">>, <<"Q", "3">>, <<"Q", "0", "1">> }

AnswerListPool == { <<>>, << <<"a">> >>, << <<"a">>, <<" ">> >> }

ValuePool == {List(l) : l \in AnswerListPool} \cup {Other}

DictPool ==
    {Dict(entries) : entries \in
        {s \in SeqsUpTo([key : KeyPool, value : ValuePool], MaxKeys) :
            \A i, j \in 1..Len(s) : i # j => s[i].key # s[j].key}}

AnswersPool == {List(l) : l \in AnswerListPool} \cup {Other} \cup DictPool

(***************************************************************************)
(* Specification of the validator: any text and answers, then one call.    *)
(***************************************************************************)
InitFill ==
    /\ question_text \in TextPool
    /\ answers \in AnswersPool
    /\ result = NoResult
    /\ form = NoForm
    /\ subject = EmptySubject
    /\ disk = Subject_to_dict(EmptySubject)
    /\ dialog = NoDialog
    /\ failures = 0
    /\ heap = NoHeap
    /\ images = {}
    /\ tree = <<>>
    /\ pc = "validator"

ValidateFillInBlank ==
    /\ result = NoResult
    /\ result' = validate_fill_in_blank(question_text, answers)
    /\ UNCHANGED <<question_text, answers, appVars, pc, form, heap, images, tree>>

NextFill == ValidateFillInBlank

SpecFill == InitFill /\ [][NextFill]_vars

(***************************************************************************)
(* Claims about the fill-in-blank validator (checked under SpecFill).      *)
(***************************************************************************)
Called == result # NoResult

TextSlots == Range(PlaceholderIds(question_text))
AnswerKeys == Range(keys(answers))

\* C1: with a map of answers the validator returns valid only if the set of
\* slot-ids referenced by _Q<n>_ placeholders in the text equals the set of keys
\* of the map: a slot of the text without a key, or a key without a placeholder
\* in the text, each makes validation fail.
C1_TwoWaySetEquality ==
    (Called /\ answers.kind = "dict") =>
        /\ result.ok => TextSlots = AnswerKeys
        /\ (TextSlots \ AnswerKeys) # {} => ~result.ok
        /\ (AnswerKeys \ TextSlots) # {} => ~result.ok

\* C1 witness: a two-key map is accepted for a text with two placeholders.
C1_Witness ==
    /\ Called /\ answers.kind = "dict" /\ result.ok
    /\ Cardinality(AnswerKeys) = 2 /\ Cardinality(TextSlots) = 2

\* the numeric values of the suffixes of the keys of the answer map
KeyNumbers == {int(replace(k, "Q")) : k \in AnswerKeys}

\* a criterion of acceptance that reads the text only through the SET of its
\* slot-ids, so it cannot depend on the order the placeholders are typed in
AcceptedBySets ==
    /\ ~IsBlank(question_text)
    /\ answers.kind = "dict"
    /\ AnswerKeys # {}
    /\ TextSlots = AnswerKeys
    /\ KeyNumbers = 1..Cardinality(AnswerKeys)
    /\ \A i \in 1..Len(answers.entries) :
          /\ answers.entries[i].value.kind = "list"
          /\ Len(answers.entries[i].value.items) >= 1
          /\ \A j \in 1..Len(answers.entries[i].value.items) :
                ~IsBlank(answers.entries[i].value.items[j])

\* C2: whenever a multi-slot question with N answer-map keys is accepted, the
\* numeric suffixes of the keys are exactly 1..N (no gap, no repeat), and
\* acceptance depends on the set of slots of the text only, not on the order of
\* the placeholders: a text with _Q2_ before _Q1_ is accepted.
C2_ConsecutiveAnyOrder ==
    (Called /\ answers.kind = "dict") =>
        /\ result.ok => /\ KeyNumbers = 1..Len(answers.entries)
                        /\ Cardinality(KeyNumbers) = Cardinality(AnswerKeys)
        /\ result.ok <=> AcceptedBySets

\* C2 witness: a text with _Q2_ typed before _Q1_ is accepted with keys Q1, Q2.
C2_Witness ==
    /\ Called /\ result.ok
    /\ PlaceholderIds(question_text) = << <<"Q", "2">>, <<"Q", "1">> >>
    /\ answers.kind = "dict" /\ Len(answers.entries) = 2

\* C3: the mode is determined by the text: a flat list of answers is rejected
\* for a text with one or more placeholders, and a map of answers is rejected
\* for a text with no placeholder.
C3_ModeByText ==
    Called =>
        /\ (TextSlots # {} /\ answers.kind = "list") => ~result.ok
        /\ (TextSlots = {} /\ answers.kind = "dict") => ~result.ok

(***************************************************************************)
(* Load, save, load again: the documents a subject file may hold.          *)
(***************************************************************************)
Restrict(f, S) == [k \in S |-> f[k]]

FirstLessonId == <<DEFAULT_LESSON_ID_PREFIX>> \o zfill(str(1), 3)

\* lesson objects, with and without the key enabled
LessonObjects ==
    { Restrict([id |-> FirstLessonId, name |-> "Capitals", enabled |-> e], ks) :
        e \in BOOLEAN, ks \in {{"id", "name"}, {"id", "name", "enabled"}} }

\* question objects of a known type and of a type without a class: with no key
\* type, with and without the keys enabled and lessonId
DocTypes == {"true_false", "dropdown"}

QuestionKeys(qtype) ==
    IF qtype = "dropdown" THEN {"id", "question", "dropdowns"} ELSE {"id", "question", "correct"}

QuestionObjects ==
    { Restrict([id |-> 1, type |-> t, lessonId |-> FirstLessonId, enabled |-> e,
                question |-> "\"q\"", correct |-> "1", dropdowns |-> "{\"DD1\": {}}",
                questionImage |-> "\"images/q1.png\""],
               QuestionKeys(t) \cup ks) :
        t \in DocTypes, e \in BOOLEAN,
        ks \in {{}, {"type"}, {"type", "enabled"}, {"type", "lessonId"},
                {"type", "enabled", "lessonId"},
                {"type", "enabled", "lessonId", "questionImage"}} }

\* the values the key lessons or questions may have, given the objects and the
\* longest list
KeyValues(objects, n) ==
    { JsonAbsent, JsonNull, JsonDict(<<>>), JsonDict(<<"a">>), JsonString(<<>>),
      JsonString(<<"a">>) }
    \cup { JsonList(items) : items \in SeqsUpTo(objects \cup {JsonScalar("1")}, n) }

DocPool ==
    { [kind |-> k] : k \in {"invalid", "list", "string", "number", "null"} }
    \cup { Document(ls, qs) : ls \in KeyValues(LessonObjects, MaxDocLessons),
                              qs \in KeyValues(QuestionObjects, MaxDocQuestions) }

InitLoad ==
    /\ pc = "file"
    /\ disk \in DocPool
    /\ subject = NoSubject
    /\ dialog = NoDialog
    /\ failures = 0
    /\ heap = NoHeap
    /\ images = {}
    /\ tree = <<>>
    /\ question_text = <<>>
    /\ answers = Other
    /\ result = NoResult
    /\ form = NoForm

\* DataManager.load_subject on the file
Load ==
    /\ pc = "file"
    /\ subject' = load_subject(disk)
    /\ pc' = "loaded"
    /\ UNCHANGED <<disk, dialog, failures, fillVars>>

\* DataManager.save_subject on the Subject that was loaded
Save ==
    /\ pc = "loaded"
    /\ subject # NoSubject
    /\ \E o \in SaveOutcomes :
          /\ SaveSubject(subject, o)
          /\ pc' = IF o = "saved" THEN "saved" ELSE "save failed"
    /\ UNCHANGED <<subject, dialog, fillVars>>

\* DataManager.load_subject on the file that was saved
LoadAgain ==
    /\ pc \in {"saved", "save failed"}
    /\ subject' = load_subject(disk)
    /\ pc' = "loaded again"
    /\ UNCHANGED <<disk, dialog, failures, fillVars>>

NextLoad ==
    \/ Load
    \/ Save
    \/ LoadAgain

SpecLoad == InitLoad /\ [][NextLoad]_vars

(***************************************************************************)
(* Claims on loading and saving, checked under SpecLoad.                   *)
(***************************************************************************)
\* C7: a Subject obtained by loading a document, saved and loaded again, is the
\* same Subject: the same lessons and the same questions, field by field, in the
\* same order.
C7_RoundTrip == [][(LoadAgain /\ pc = "saved") => subject' = subject]_vars

\* two questions were loaded, saved and loaded again: one disabled and of a type
\* without a class, one whose document omitted lessonId
C7_Witness ==
    /\ pc = "loaded again"
    /\ subject # NoSubject
    /\ Len(subject.questions) = 2
    /\ subject.questions[1].enabled = FALSE
    /\ subject.questions[1].cls = "Question"
    /\ subject.questions[2].lessonId = None
    /\ Len(subject.lessons) = 1
    /\ disk = Subject_to_dict(subject)

\* C8: a loaded question whose object omits enabled is enabled, one whose object
\* omits lessonId has lessonId null, and a loaded lesson whose object omits
\* enabled is enabled.
C8_MigrationDefaults ==
    (pc = "loaded" /\ subject # NoSubject) =>
        /\ \A k \in 1..Len(subject.questions) :
              LET question == Iterate(OrEmptyList(disk.questions))[k]
              IN  /\ "enabled" \notin DOMAIN question => subject.questions[k].enabled = TRUE
                  /\ "lessonId" \notin DOMAIN question => subject.questions[k].lessonId = None
        /\ \A k \in 1..Len(subject.lessons) :
              LET lesson == Iterate(OrEmptyList(disk.lessons))[k]
              IN  "enabled" \notin DOMAIN lesson => subject.lessons[k].enabled = TRUE

\* a document was loaded whose lesson omits enabled, whose first question omits
\* enabled and lessonId and whose second question has both
C8_Witness ==
    /\ pc = "loaded"
    /\ subject # NoSubject
    /\ Len(subject.lessons) = 1
    /\ "enabled" \notin DOMAIN disk.lessons.items[1]
    /\ Len(subject.questions) = 2
    /\ DOMAIN disk.questions.items[1] \cap {"enabled", "lessonId"} = {}
    /\ {"enabled", "lessonId"} \subseteq DOMAIN disk.questions.items[2]
    /\ subject.questions[2].enabled = FALSE
    /\ subject.questions[2].lessonId # None

\* the parsed root is not an object, or the value of questions is present and not
\* a list
Malformed(doc) ==
    \/ doc.kind # "object"
    \/ doc.questions # JsonAbsent /\ doc.questions.kind # "list"

\* C9: load_subject returns None for a document whose root is not an object or
\* whose questions value is present and is not a list.
C9_MalformedIsLoadError ==
    (pc = "loaded" /\ Malformed(disk)) => subject = NoSubject

(***************************************************************************)
(* The validators of QuestionValidator that validate_question_by_type      *)
(* dispatches to.                                                          *)
(***************************************************************************)
MIN_OPTIONS_MC == 2
MIN_CORRECT_ANSWERS_MCM == 1

\* a duplicate check that only compares neighbours
HasDuplicates_Adjacent(correct_indices) ==
    \E i \in 1..(Len(correct_indices) - 1) : correct_indices[i] = correct_indices[i + 1]

\* len(correct_indices) != len(set(correct_indices))
HasDuplicates(correct_indices) ==
    Len(correct_indices) # Cardinality(Range(correct_indices))

validate_multiple_choice_multiple(text, options, correct_indices) ==
    IF IsBlank(text)
    THEN Invalid("Question text is required", <<>>, 0)
    ELSE IF Len(options) < MIN_OPTIONS_MC
    THEN Invalid("Need at least 2 options", <<>>, 0)
    ELSE IF FirstIndex(BlankTests(options)) # 0
    THEN Invalid("Option is empty", <<>>, FirstIndex(BlankTests(options)) - 1)
    ELSE IF correct_indices = <<>> \/ Len(correct_indices) < MIN_CORRECT_ANSWERS_MCM
    THEN Invalid("Need at least 1 correct answer", <<>>, 0)
    ELSE IF Len(correct_indices) > Len(options)
    THEN Invalid("Too many correct answers", <<>>, 0)
    ELSE IF HasDuplicates(correct_indices)
    THEN Invalid("Duplicate correct answer indices found", <<>>, 0)
    ELSE LET bad == FirstIndex([i \in 1..Len(correct_indices) |->
                                   correct_indices[i] < 0
                                   \/ correct_indices[i] >= Len(options)])
         IN  IF bad # 0
             THEN Invalid("Correct index is out of range", <<>>, correct_indices[bad])
             ELSE Valid

validate_multiple_choice(text, options, correct_index) ==
    IF IsBlank(text)
    THEN Invalid("Question text is required", <<>>, 0)
    ELSE IF Len(options) < MIN_OPTIONS_MC
    THEN Invalid("Need at least 2 options", <<>>, 0)
    ELSE IF FirstIndex(BlankTests(options)) # 0
    THEN Invalid("Option is empty", <<>>, FirstIndex(BlankTests(options)) - 1)
    ELSE IF correct_index < 0 \/ correct_index >= Len(options)
    THEN Invalid("Correct index must be between 0 and", <<>>, Len(options) - 1)
    ELSE Valid

validate_true_false(text, correct) ==
    IF IsBlank(text)
    THEN Invalid("Question text is required", <<>>, 0)
    ELSE IF correct \notin {0, 1}
    THEN Invalid("Correct answer must be 0 (True) or 1 (False)", <<>>, 0)
    ELSE Valid

MIN_PAIRS_MATCHING == 2

\* not pair.get(k) or not pair.get(k).strip()
PairSideEmpty(pair, k) == Get(pair, k, None) = None \/ IsBlank(Get(pair, k, None))

validate_matching(text, pairs) ==
    IF IsBlank(text)
    THEN Invalid("Question text is required", <<>>, 0)
    ELSE IF Len(pairs) < MIN_PAIRS_MATCHING
    THEN Invalid("Need at least 2 pairs", <<>>, 0)
    ELSE LET bad == FirstIndex([i \in 1..Len(pairs) |->
                                   \/ PairSideEmpty(pairs[i], "country")
                                   \/ PairSideEmpty(pairs[i], "capital")
                                   \/ PairSideEmpty(pairs[i], "id")])
         IN  IF bad = 0 THEN Valid
             ELSE IF PairSideEmpty(pairs[bad], "country")
             THEN Invalid("Pair left side is empty", <<>>, bad)
             ELSE IF PairSideEmpty(pairs[bad], "capital")
             THEN Invalid("Pair right side is empty", <<>>, bad)
             ELSE Invalid("Pair missing ID", <<>>, bad)

MIN_ITEMS_REORDERING == 2

\* item.get('text'), item.get('order'): None for a key the item does not have
ItemGet(item, k) == Get(item, k, None)

\* not item.get('text') or not item.get('text').strip()
ItemTextEmpty(item) == ItemGet(item, "text") = None \/ IsBlank(ItemGet(item, "text"))

validate_reordering(text, items) ==
    IF IsBlank(text)
    THEN Invalid("Question text is required", <<>>, 0)
    ELSE IF Len(items) < MIN_ITEMS_REORDERING
    THEN Invalid("Need at least 2 items", <<>>, 0)
    ELSE LET bad == FirstIndex([i \in 1..Len(items) |->
                                   ItemTextEmpty(items[i]) \/ "order" \notin DOMAIN items[i]])
         IN  IF bad = 0 THEN Valid
             ELSE IF ItemTextEmpty(items[bad])
             THEN Invalid("Item text is empty", <<>>, bad)
             ELSE Invalid("Item missing order", <<>>, bad)

MIN_SUBQUESTIONS_READING == 1

\* the test of one sub-question: the message, or "" when it passes; sq.get('correct')
\* is None for a sub-question without the key
SubQuestionError(sq) ==
    LET options == Get(sq, "options", <<>>)
    IN  IF Get(sq, "question", None) = None \/ IsBlank(Get(sq, "question", None))
        THEN "Sub-question text is empty"
        ELSE IF Len(options) < MIN_OPTIONS_MC
        THEN "Sub-question needs at least 2 options"
        ELSE IF FirstIndex(BlankTests(options)) # 0
        THEN "Sub-question option is empty"
        ELSE IF "correct" \notin DOMAIN sq \/ sq.correct < 0 \/ sq.correct >= Len(options)
        THEN "Sub-question has invalid correct answer"
        ELSE ""

validate_reading_comprehension(text, sub_questions) ==
    IF IsBlank(text)
    THEN Invalid("Passage text is required", <<>>, 0)
    ELSE IF Len(sub_questions) < MIN_SUBQUESTIONS_READING
    THEN Invalid("Need at least 1 sub-question", <<>>, 0)
    ELSE LET bad == FirstIndex([i \in 1..Len(sub_questions) |->
                                   SubQuestionError(sub_questions[i]) # ""])
         IN  IF bad = 0 THEN Valid
             ELSE Invalid(SubQuestionError(sub_questions[bad]), <<>>, bad)

(***************************************************************************)
(* Validation of a dropdown question.                                      *)
(***************************************************************************)
\* the methods class QuestionValidator defines
QuestionValidatorMethods ==
    {"validate_multiple_choice", "validate_multiple_choice_multiple", "validate_true_false",
     "validate_fill_in_blank", "_validate_single_blank", "_validate_multi_blank",
     "validate_matching", "validate_reordering", "validate_reading_comprehension",
     "validate_question_by_type"}

\* the keys of the table validate_question_by_type looks the type up in
ValidatorTypes ==
    {"multiple_choice", "multiple_choice_multiple", "true_false", "fill_in_blank",
     "matching", "reordering", "reading_comprehension"}

\* DropdownForm.validate on the collected text and dropdowns: the lookup of
\* QuestionValidator.validate_dropdown raises AttributeError
DropdownForm_validate(text, dropdowns) ==
    CASE "validate_dropdown" \notin QuestionValidatorMethods ->
            Invalid("raise AttributeError", <<>>, 0)

\* QuestionValidator.validate_question_by_type: the validator of the table is
\* called on the keyword arguments, and an exception it raises is returned as
\* a validation error
validate_question_by_type(question_type, text, ans) ==
    IF question_type \notin ValidatorTypes
    THEN Invalid("Unknown question type", <<>>, 0)
    ELSE LET r == CASE question_type = "multiple_choice" ->
                          validate_multiple_choice(text, ans.options, ans.correct_index)
                    [] question_type = "multiple_choice_multiple" ->
                          validate_multiple_choice_multiple(text, ans.options,
                                                            ans.correct_indices)
                    [] question_type = "true_false" -> validate_true_false(text, ans.correct)
                    [] question_type = "fill_in_blank" -> validate_fill_in_blank(text, ans)
                    [] question_type = "matching" -> validate_matching(text, ans.pairs)
                    [] question_type = "reordering" -> validate_reordering(text, ans.items)
                    [] question_type = "reading_comprehension" ->
                          validate_reading_comprehension(text, ans.sub_questions)
         IN  IF r.msg = "raise ValueError" THEN Invalid("Validation error", <<>>, 0) ELSE r

TheCapitalIs == <<"The capital is ">>
DD1 == <<"[", "D", "D", "1", "]">>
DD2 == <<"[", "D", "D", "2", "]">>

DropdownPieces == { TheCapitalIs \o DD1, TheCapitalIs, DD1, DD2, <<".">> }

DropdownTextPool == {Concat(ps) : ps \in SeqsUpTo(DropdownPieces, MaxPieces)}

\* one dropdown: its options and the index of the correct one
Dropdown(options, correct) == [options |-> options, correct |-> correct]

DropdownValues ==
    { Dropdown(<<"Paris", "Rome", "Oslo">>, 0), Dropdown(<<"Paris", "Rome", "Oslo">>, 3),
      Dropdown(<<"Paris", "Rome">>, 0) }

DropdownsPool ==
    {Dict(entries) : entries \in
        {s \in SeqsUpTo([key : {<<"D", "D", "1">>, <<"D", "D", "2">>}, value : DropdownValues],
                        MaxKeys) :
            \A i, j \in 1..Len(s) : i # j => s[i].key # s[j].key}}

InitDropdown ==
    /\ question_text \in DropdownTextPool
    /\ answers \in DropdownsPool
    /\ result = NoResult
    /\ form = NoForm
    /\ subject = EmptySubject
    /\ disk = Subject_to_dict(EmptySubject)
    /\ dialog = NoDialog
    /\ failures = 0
    /\ heap = NoHeap
    /\ images = {}
    /\ tree = <<>>
    /\ pc = "dropdown"

\* DropdownForm.validate
ValidateDropdownForm ==
    /\ result = NoResult
    /\ result' = DropdownForm_validate(question_text, answers)
    /\ UNCHANGED <<question_text, answers, appVars, pc, form, heap, images, tree>>

\* QuestionValidator.validate_question_by_type('dropdown', ...)
ValidateDropdownByType ==
    /\ result = NoResult
    /\ result' = validate_question_by_type("dropdown", question_text, answers)
    /\ UNCHANGED <<question_text, answers, appVars, pc, form, heap, images, tree>>

NextDropdown ==
    \/ ValidateDropdownForm
    \/ ValidateDropdownByType

SpecDropdown == InitDropdown /\ [][NextDropdown]_vars

(***************************************************************************)
(* Claim about the dropdown validator (checked under SpecDropdown).        *)
(***************************************************************************)
\* sub occurs in s
Contains(s, sub) ==
    \E i \in 1..(Len(s) - Len(sub) + 1) : SubSeq(s, i, i + Len(sub) - 1) = sub

\* {DD1: three non-empty options, correct = 0}
CapitalDropdowns ==
    Dict(<<[key |-> <<"D", "D", "1">>, value |-> Dropdown(<<"Paris", "Rome", "Oslo">>, 0)]>>)

\* C10: the dropdown validator accepts "The capital is [DD1]." with the dropdowns
\* {DD1: three options, correct = 0}, and for the same dropdowns and a text
\* without [DD1] it returns false with a placeholder-not-found message.
C10_DropdownValidation ==
    (pc = "dropdown" /\ result # NoResult /\ answers = CapitalDropdowns) =>
        /\ question_text = TheCapitalIs \o DD1 \o <<".">> => result.ok
        /\ ~Contains(question_text, DD1) =>
              ~result.ok /\ result.msg = "Dropdown placeholder not found in question text"

(***************************************************************************)
(* Validation of a multiple-choice question with several correct answers.  *)
(***************************************************************************)
\* the arguments of the call next to the question text
McmArgs(options, correct_indices) ==
    [options |-> options, correct_indices |-> correct_indices]

McmTextPool == { <<>>, <<" ">>, <<"q">> }
OptionPool == { <<"a">>, <<"b">>, <<" ">> }
IndexPool == {-1, 0, 1, 2, 5}

InitMcm ==
    /\ question_text \in McmTextPool
    /\ answers \in { McmArgs(o, c) : o \in SeqsUpTo(OptionPool, MaxOptions),
                                     c \in SeqsUpTo(IndexPool, MaxCorrect) }
    /\ result = NoResult
    /\ form = NoForm
    /\ subject = EmptySubject
    /\ disk = Subject_to_dict(EmptySubject)
    /\ dialog = NoDialog
    /\ failures = 0
    /\ heap = NoHeap
    /\ images = {}
    /\ tree = <<>>
    /\ pc = "mcm"

ValidateMultipleChoiceMultiple ==
    /\ pc = "mcm"
    /\ result = NoResult
    /\ result' = validate_multiple_choice_multiple(question_text, answers.options,
                                                   answers.correct_indices)
    /\ UNCHANGED <<question_text, answers, appVars, pc, form, heap, images, tree>>

NextMcm == ValidateMultipleChoiceMultiple

SpecMcm == InitMcm /\ [][NextMcm]_vars

(***************************************************************************)
(* Claim about the multi-answer validator (checked under SpecMcm).         *)
(***************************************************************************)
\* the call was made on a non-blank text and at least 2 options, none blank
McmCalledOnGoodOptions ==
    /\ pc = "mcm" /\ result # NoResult
    /\ ~IsBlank(question_text)
    /\ Len(answers.options) >= 2
    /\ \A i \in 1..Len(answers.options) : ~IsBlank(answers.options[i])

InRange(idx) == 0 <= idx /\ idx <= Len(answers.options) - 1

NoDuplicate(c) == \A i, j \in 1..Len(c) : c[i] = c[j] => i = j

McmAcceptable ==
    /\ answers.correct_indices # <<>>
    /\ NoDuplicate(answers.correct_indices)
    /\ \A i \in 1..Len(answers.correct_indices) : InRange(answers.correct_indices[i])

\* the claim as stated: a list with a duplicate (and every index in range) gets
\* the duplicate error, a list without duplicate and with an index out of range
\* gets the out-of-range error, the empty list the need-at-least-1 error
C11_McmAsStated ==
    McmCalledOnGoodOptions =>
        LET c == answers.correct_indices
        IN  /\ result.ok <=> McmAcceptable
            /\ (~NoDuplicate(c) /\ \A i \in 1..Len(c) : InRange(c[i])) =>
                  result.msg = "Duplicate correct answer indices found"
            /\ (NoDuplicate(c) /\ \E i \in 1..Len(c) : ~InRange(c[i])) =>
                  result.msg = "Correct index is out of range"
            /\ c = <<>> => result.msg = "Need at least 1 correct answer"

\* C11: for a non-blank text and at least 2 non-blank options, a list of correct
\* indices is accepted exactly when it is non-empty, has no duplicate and every
\* index is in range; the empty list gets the need-at-least-1 error, a list
\* longer than the option list the too-many error, and among the lists no longer
\* than the option list one with a duplicate gets the duplicate error and one
\* without duplicate and an index out of range the out-of-range error.
C11_McmIndices ==
    McmCalledOnGoodOptions =>
        LET c == answers.correct_indices
        IN  /\ result.ok <=> McmAcceptable
            /\ c = <<>> => result.msg = "Need at least 1 correct answer"
            /\ Len(c) > Len(answers.options) => result.msg = "Too many correct answers"
            /\ (c # <<>> /\ Len(c) <= Len(answers.options)) =>
                  /\ ~NoDuplicate(c) => result.msg = "Duplicate correct answer indices found"
                  /\ (NoDuplicate(c) /\ \E i \in 1..Len(c) : ~InRange(c[i])) =>
                        /\ result.msg = "Correct index is out of range"
                        /\ ~InRange(result.idx)

\* the list 0,0,1 was rejected for three options with the duplicate error
C11_Witness ==
    /\ McmCalledOnGoodOptions
    /\ Len(answers.options) = 3
    /\ answers.correct_indices = <<0, 0, 1>>
    /\ result.msg = "Duplicate correct answer indices found"

(***************************************************************************)
(* The per-slot sections of the fill-in-blank form and the dropdown form.  *)
(***************************************************************************)
\* the index of the closing "]" of a match of \[DD(\d+)\] that starts at i, or 0
DropdownMatchEnd(s, i) ==
    IF i + 4 <= Len(s) /\ s[i] = "[" /\ s[i + 1] = "D" /\ s[i + 2] = "D"
    THEN LET e == DigitRunEnd(s, i + 3)
         IN  IF e >= i + 3 /\ e + 1 <= Len(s) /\ s[e + 1] = "]" THEN e + 1 ELSE 0
    ELSE 0

\* re.findall(DROPDOWN_PLACEHOLDER_PATTERN, s) from index i on
RECURSIVE findallDropdownFrom(_, _)
findallDropdownFrom(s, i) ==
    IF i > Len(s) THEN <<>>
    ELSE LET e == DropdownMatchEnd(s, i)
         IN  IF e = 0 THEN findallDropdownFrom(s, i + 1)
             ELSE <<SubSeq(s, i + 3, e - 1)>> \o findallDropdownFrom(s, e + 1)

FormKinds == {"fill_in_blank", "dropdown"}

\* 'Q' or 'DD', put before the number of a slot
SlotPrefix(kind) == IF kind = "fill_in_blank" THEN <<"Q">> ELSE <<"D", "D">>

\* 'Q1' or 'DD1': the section render() creates
FirstSlot(kind) == SlotPrefix(kind) \o <<"1">>

\* detected_blank_ids / detected_dd_ids for the text of the widget
DetectedIds(kind, text) ==
    LET matches == IF kind = "fill_in_blank" THEN findall(strip(text))
                   ELSE findallDropdownFrom(strip(text), 1)
    IN  [i \in 1..Len(matches) |-> SlotPrefix(kind) \o matches[i]]

\* the loop that adds the detected ids that have no section yet
RECURSIVE AddMissing(_, _)
AddMissing(sections, detected) ==
    IF detected = <<>> THEN sections
    ELSE AddMissing(IF Head(detected) \in Range(sections) THEN sections
                    ELSE Append(sections, Head(detected)),
                    Tail(detected))

\* which of the sections that existed before the event the second loop removes
Removed(kind, id, detected) ==
    IF Len(detected) = 0 THEN id # FirstSlot(kind) ELSE id \notin Range(detected)

\* _on_question_text_change: the sections after the event
on_question_text_change(kind, sections, text) ==
    LET detected == DetectedIds(kind, text)
        current == sections
        added == AddMissing(sections, detected)
    IN  SelectSeq(added, LAMBDA id : ~(id \in Range(current) /\ Removed(kind, id, detected)))

\* the texts the author may leave in the widget when a key is released
FormTexts(kind) == IF kind = "fill_in_blank" THEN TextPool ELSE DropdownTextPool

\* FillInBlankForm / DropdownForm in add mode, after render()
InitForm ==
    /\ pc = "form"
    /\ form \in { [kind |-> k, sections |-> <<FirstSlot(k)>>] : k \in FormKinds }
    /\ question_text = <<>>
    /\ answers = Other
    /\ result = NoResult
    /\ subject = EmptySubject
    /\ disk = Subject_to_dict(EmptySubject)
    /\ dialog = NoDialog
    /\ failures = 0
    /\ heap = NoHeap
    /\ images = {}
    /\ tree = <<>>

\* <KeyRelease> on the question text
OnQuestionTextChange ==
    /\ pc = "form"
    /\ \E text \in FormTexts(form.kind) :
          /\ question_text' = text
          /\ form' = [form EXCEPT !.sections = on_question_text_change(form.kind, @, text)]
    /\ UNCHANGED <<answers, result, appVars, pc, heap, images, tree>>

NextForm == OnQuestionTextChange

SpecForm == InitForm /\ [][NextForm]_vars

(***************************************************************************)
(* Claim about the sections of the forms (checked under SpecForm).         *)
(***************************************************************************)
\* C12: after every sequence of question-text change events the form has at
\* least one section, and when the text has no placeholder it has the section
\* Q1 (DD1 in the dropdown form).
C12_SectionKept ==
    pc = "form" =>
        /\ form.sections # <<>>
        /\ DetectedIds(form.kind, question_text) = <<>> =>
              FirstSlot(form.kind) \in Range(form.sections)

(***************************************************************************)
(* The validator on the texts of three cases: the placeholders Q1 and Q3,  *)
(* the placeholder Q1 alone, and no placeholder; with every answers value. *)
(***************************************************************************)
CasePieces == { <<"_", "Q", "1", "_">>, <<"_", "Q", "3", "_">>, <<"x">> }

CaseTextPool == {Concat(ps) : ps \in SeqsUpTo(CasePieces, MaxPieces)}

InitFillCases ==
    /\ question_text \in CaseTextPool
    /\ answers \in AnswersPool
    /\ result = NoResult
    /\ form = NoForm
    /\ subject = EmptySubject
    /\ disk = Subject_to_dict(EmptySubject)
    /\ dialog = NoDialog
    /\ failures = 0
    /\ heap = NoHeap
    /\ images = {}
    /\ tree = <<>>
    /\ pc = "validator"

SpecFillCases == InitFillCases /\ [][NextFill]_vars

(***************************************************************************)
(* Claims about single cases of the validator (checked under SpecFillCases)*)
(***************************************************************************)
Q1 == <<"Q", "1">>
Q2 == <<"Q", "2">>
Q3 == <<"Q", "3">>

\* the text has the placeholders Q1 and Q3 and no other, and a map is given
GapAtQ2 == Called /\ answers.kind = "dict" /\ TextSlots = {Q1, Q3}

NumberingError == "Blank numbering must be consecutive starting from 1"

ExtraKeyQ2 ==
    /\ Called /\ answers.kind = "dict"
    /\ TextSlots = {Q1}
    /\ AnswerKeys = {Q1, Q2}
    /\ \A i \in 1..Len(answers.entries) :
          /\ answers.entries[i].value.kind = "list"
          /\ Len(answers.entries[i].value.items) >= 1
          /\ \A j \in 1..Len(answers.entries[i].value.items) :
                ~IsBlank(answers.entries[i].value.items[j])

\* C14: for a text whose only placeholder is Q1 and a map with keys Q1 and Q2,
\* both with non-empty answers, the validator fails, and the error names Q2 as
\* a slot that has answers but no placeholder in the text.
C14_ExtraKeyNamed ==
    ExtraKeyQ2 =>
        /\ ~result.ok
        /\ result.msg = "Answers provided but blank not found in question text"
        /\ result.slot = Q2

\* C14 witness: such a call has been made and was rejected.
C14_Witness == ExtraKeyQ2 /\ ~result.ok /\ result.slot = Q2

\* the text is not blank and has no placeholder, and a flat list is given
LegacyCall ==
    Called /\ answers.kind = "list" /\ ~IsBlank(question_text) /\ TextSlots = {}

\* C15: in legacy single-slot mode (non-blank text without placeholder, flat
\* list of answers) the validator fails with the need-at-least-1-acceptable-
\* answer error when the list is empty, and passes when the list has one or
\* more entries and none is blank.
C15_LegacySingleSlot ==
    LegacyCall =>
        /\ Len(answers.items) = 0 =>
              (~result.ok /\ result.msg = "Need at least 1 acceptable answer")
        /\ (/\ Len(answers.items) >= 1
            /\ \A j \in 1..Len(answers.items) : ~IsBlank(answers.items[j])) =>
              result.ok

\* C15 witnesses: the empty list was rejected; a list of answers was accepted.
C15_Witness == LegacyCall /\ Len(answers.items) >= 1 /\ result.ok

C15_WitnessEmpty == LegacyCall /\ Len(answers.items) = 0 /\ ~result.ok

(***************************************************************************)
(* FillInBlankQuestion.get_blank_ids, on the questions the form collects.  *)
(***************************************************************************)
MaxSlots == 3

Q10 == <<"Q", "1", "0">>

\* int(x.replace('Q', '')), the sort key
BlankNumber(x) == int(replace(x, "Q"))

\* a sort that compares the ids as strings of digits, character by character
RECURSIVE LexLess(_, _)
LexLess(a, b) ==
    IF a = <<>> THEN b # <<>>
    ELSE IF b = <<>> THEN FALSE
    ELSE IF Head(a) = Head(b) THEN LexLess(Tail(a), Tail(b))
    ELSE DigitValue(Head(a)) < DigitValue(Head(b))

Before_Lexicographic(x, y) == LexLess(replace(x, "Q"), replace(y, "Q"))

\* the order list.sort(key=...) compares by
Before(x, y) == BlankNumber(x) < BlankNumber(y)

\* list.sort(key=lambda x: int(x.replace('Q', ''))): a stable sort
RECURSIVE InsertById(_, _)
InsertById(x, s) ==
    IF s = <<>> THEN <<x>>
    ELSE IF Before(x, Head(s)) THEN <<x>> \o s
    ELSE <<Head(s)>> \o InsertById(x, Tail(s))

RECURSIVE sort_blank_ids(_)
sort_blank_ids(ids) ==
    IF ids = <<>> THEN <<>>
    ELSE InsertById(ids[Len(ids)], sort_blank_ids(SubSeq(ids, 1, Len(ids) - 1)))

is_multi_blank(correct) == correct.kind = "dict"

get_blank_ids(correct) ==
    IF is_multi_blank(correct)
    THEN LET blank_ids == keys(correct) IN sort_blank_ids(blank_ids)
    ELSE <<Q1>>

\* answers_dict[blank_id] = answers_list, for the detected ids that have a section
RECURSIVE CollectAnswers(_, _, _)
CollectAnswers(detected, widgets, entries) ==
    IF detected = <<>> THEN entries
    ELSE LET blank_id == Head(detected)
             present == \E i \in 1..Len(entries) : entries[i].key = blank_id
         IN  CollectAnswers(Tail(detected), widgets,
                IF blank_id \in Range(widgets) /\ ~present
                THEN Append(entries, [key |-> blank_id, value |-> List(<< <<"a">> >>)])
                ELSE entries)

\* data['answers'] of FillInBlankForm.collect_data for a text typed into a new form
collect_answers(text) ==
    LET detected_blank_ids == DetectedIds("fill_in_blank", text)
        blank_text_widgets ==
            on_question_text_change("fill_in_blank", <<FirstSlot("fill_in_blank")>>, text)
    IN  IF Len(detected_blank_ids) = 0 THEN List(<< <<"a">> >>)
        ELSE Dict(CollectAnswers(detected_blank_ids, blank_text_widgets, <<>>))

SlotPieces ==
    { <<"_", "Q", "1", "_">>, <<"_", "Q", "2", "_">>, <<"_", "Q", "3", "_">>,
      <<"_", "Q", "1", "0", "_">>, <<"x">> }

SlotTextPool == {Concat(ps) : ps \in SeqsUpTo(SlotPieces, MaxSlots)}

NoIds == [returned |-> << <<"not called">> >>]

\* a fill-in-blank question saved from the form: its text and its answers
InitBlankIds ==
    /\ pc = "blank_ids"
    /\ question_text \in SlotTextPool
    /\ answers = collect_answers(question_text)
    /\ result = NoIds
    /\ form = NoForm
    /\ subject = EmptySubject
    /\ disk = Subject_to_dict(EmptySubject)
    /\ dialog = NoDialog
    /\ failures = 0
    /\ heap = NoHeap
    /\ images = {}
    /\ tree = <<>>

GetBlankIds ==
    /\ pc = "blank_ids"
    /\ result = NoIds
    /\ result' = [returned |-> get_blank_ids(answers)]
    /\ UNCHANGED <<question_text, answers, appVars, pc, form, heap, images, tree>>

NextBlankIds == GetBlankIds

SpecBlankIds == InitBlankIds /\ [][NextBlankIds]_vars

IdsReturned == pc = "blank_ids" /\ result # NoIds

\* the position of an id in the list returned
IndexOf(id) == CHOOSE i \in 1..Len(result.returned) : result.returned[i] = id

\* C16: the slot ids of a question come in numeric order of their suffix: for a
\* text that references Q1, Q2 and Q3 in any order of first appearance the ids
\* are Q1, Q2, Q3; every list of ids is strictly increasing in the number (Q2
\* comes before Q10) and holds each slot of the text once.
C16_NumericOrder ==
    (IdsReturned /\ TextSlots # {}) =>
        /\ TextSlots = {Q1, Q2, Q3} => result.returned = <<Q1, Q2, Q3>>
        /\ Range(result.returned) = TextSlots
        /\ \A i, j \in 1..Len(result.returned) :
              i < j => BlankNumber(result.returned[i]) < BlankNumber(result.returned[j])
        /\ {Q2, Q10} \subseteq TextSlots => IndexOf(Q2) < IndexOf(Q10)

\* C16 witness: the text has Q10 before Q2 and the ids come back Q2, Q10.
C16_Witness ==
    /\ IdsReturned
    /\ PlaceholderIds(question_text) = <<Q10, Q2>>
    /\ result.returned = <<Q2, Q10>>

\* the text has Q3, Q1, Q2 in that order and the ids come back Q1, Q2, Q3
C16_WitnessThree ==
    /\ IdsReturned
    /\ PlaceholderIds(question_text) = <<Q3, Q1, Q2>>
    /\ result.returned = <<Q1, Q2, Q3>>

(***************************************************************************)
(* Claims on the Save action of the question dialog (checked under Spec).  *)
(***************************************************************************)
\* the form of the open dialog would be turned down by Save
FormInvalid == dialog.kind = "question" /\ (form.qtype \notin FormTypes \/ ~form.data.valid)

\* C17: validate-then-commit: when Save is pressed on a form whose validation
\* returns invalid, Subject.questions (the whole Subject) stays as it was and
\* no document save is performed; the Subject changes in a Save only when the
\* validation returned valid.
C17_ValidateThenCommit ==
    [][/\ (FormInvalid /\ QuestionDialogSave) =>
              (subject' = subject /\ disk' = disk /\ failures' = failures)
       /\ (subject' # subject /\ QuestionDialogSave) => form.data.valid]_vars

\* C17 witness: Save was pressed on an invalid form of an edited question, the
\* validation error was shown, and the Subject still holds the question.
C17_Witness ==
    /\ FormInvalid
    /\ form.shown = "Validation Error"
    /\ dialog.mode = "edit"
    /\ get_question_by_id(subject, dialog.question_id) # 0

(***************************************************************************)
(* Claim on the stored document (checked under Spec).                      *)
(***************************************************************************)
\* C18: at-rest consistency: after any sequence of user actions and saves,
\* including a save that fails part-way through writing, the stored document
\* is a complete serialization of a Subject (it loads, and the Subject it
\* loads as serializes to it again); it is never empty or truncated.
C18_AtRestConsistent ==
    pc = "app" =>
        /\ disk # Truncated
        /\ load_subject(disk) # NoSubject
        /\ Subject_to_dict(load_subject(disk)) = disk

(***************************************************************************)
(* Claims on the migration and the factory (checked under SpecLoad).       *)
(***************************************************************************)
\* the object after has every key of the object before, with the same value
KeepsKeys(before, after) ==
    /\ DOMAIN before \subseteq DOMAIN after
    /\ \A k \in DOMAIN before : after[k] = before[k]

\* the keys the object after has more than before are among ks
AddsOnly(before, after, ks) == (DOMAIN after) \ (DOMAIN before) \subseteq ks

Loaded == pc = "loaded" /\ subject # NoSubject

DocLessons == Iterate(OrEmptyList(disk.lessons))
DocQuestions == Iterate(OrEmptyList(disk.questions))

\* C19: the load-time migration only adds missing keys with their default
\* values: every key present in a lesson or question object keeps its value (an
\* explicit enabled = false and a non-null lessonId are preserved, also in the
\* Subject that is built), and a second application of the migration changes
\* nothing.
C19_MigrationIdempotent ==
    Loaded =>
        /\ \A k \in 1..Len(DocQuestions) :
              LET question == DocQuestions[k]
                  migrated == MigrateQuestion(question)
              IN  /\ KeepsKeys(question, migrated)
                  /\ AddsOnly(question, migrated, {"enabled", "lessonId"})
                  /\ "enabled" \notin DOMAIN question => migrated["enabled"] = TRUE
                  /\ "lessonId" \notin DOMAIN question => migrated["lessonId"] = None
                  /\ MigrateQuestion(migrated) = migrated
                  /\ "enabled" \in DOMAIN question =>
                        subject.questions[k].enabled = question["enabled"]
                  /\ "lessonId" \in DOMAIN question =>
                        subject.questions[k].lessonId = question["lessonId"]
        /\ \A k \in 1..Len(DocLessons) :
              LET lesson == DocLessons[k]
                  migrated == MigrateLesson(lesson)
              IN  /\ KeepsKeys(lesson, migrated)
                  /\ AddsOnly(lesson, migrated, {"enabled"})
                  /\ "enabled" \notin DOMAIN lesson => migrated["enabled"] = TRUE
                  /\ MigrateLesson(migrated) = migrated
                  /\ "enabled" \in DOMAIN lesson =>
                        subject.lessons[k].enabled = lesson["enabled"]

\* C19 witness: a document was loaded whose lesson and whose question are
\* explicitly disabled, the question with a lesson id, and they stay so.
C19_Witness ==
    /\ Loaded
    /\ Len(DocLessons) = 1 /\ Len(DocQuestions) >= 1
    /\ "enabled" \in DOMAIN DocLessons[1] /\ DocLessons[1]["enabled"] = FALSE
    /\ {"enabled", "lessonId"} \subseteq DOMAIN DocQuestions[1]
    /\ DocQuestions[1]["enabled"] = FALSE
    /\ subject.questions[1].enabled = FALSE
    /\ subject.questions[1].lessonId = FirstLessonId
    /\ subject.lessons[1].enabled = FALSE

\* the types Question.from_dict routes to a subclass
FactoryTypes ==
    {"multiple_choice", "multiple_choice_multiple", "true_false", "fill_in_blank",
     "matching", "reordering", "reading_comprehension"}

\* the question objects of the document whose type the factory does not know
UnknownTyped ==
    {k \in 1..Len(DocQuestions) : Get(DocQuestions[k], "type", "multiple_choice") \notin FactoryTypes}

\* C20: unknown-type fallback: a question object whose type the factory does
\* not recognize is loaded, without failing, as a generic question that has the
\* envelope fields only; its type is the input type string unchanged and its
\* id, lessonId, enabled and image fields are those of the input (the defaults
\* where the input has none).
C20_UnknownTypeFallback ==
    Loaded =>
        \A k \in UnknownTyped :
            LET data == DocQuestions[k]
                q == subject.questions[k]
            IN  /\ q["cls"] = "Question"
                /\ DOMAIN q = {"cls"} \cup EnvelopeFields
                /\ q["type"] = data["type"]
                /\ q["id"] = Get(data, "id", 0)
                /\ q["lessonId"] = Get(data, "lessonId", None)
                /\ q["enabled"] = Get(data, "enabled", TRUE)
                /\ q["questionImage"] = Get(data, "questionImage", "null")
                /\ q["questionImageScale"] = Get(data, "questionImageScale", DEFAULT_IMAGE_SCALE)

\* C20 witness: a question of type dropdown with an image, a lesson id and
\* enabled = false was loaded as a generic question.
C20_Witness ==
    /\ Loaded
    /\ 1 \in UnknownTyped
    /\ {"enabled", "lessonId", "questionImage"} \subseteq DOMAIN DocQuestions[1]
    /\ subject.questions[1]["type"] = "dropdown"
    /\ subject.questions[1]["enabled"] = FALSE
    /\ subject.questions[1]["questionImage"] = "\"images/q1.png\""

(***************************************************************************)
(* from_dict and the lists and dicts it is given: Python passes them by    *)
(* reference.  The store maps an address (an index) to the items of the    *)
(* list or dict at that address; the input dict and the question hold      *)
(* addresses, 0 for a key that the input dict does not have.               *)
(***************************************************************************)
MaxItems == 2

\* the classes the claim names, and their fields that are lists or dicts
AliasClasses == {"MultipleChoiceQuestion", "MatchingQuestion"}

CollectionFields(cls) ==
    IF cls = "MultipleChoiceQuestion" THEN {"options"} ELSE {"pairs", "correct"}

\* the value of a mapping from fields to addresses: the items behind each address
Deep(store, refs) ==
    [f \in DOMAIN refs |-> IF refs[f] = 0 THEN <<"absent">> ELSE store[refs[f]]]

\* a from_dict that copies: list(data.get(f, []))
FieldOfNew_Copied(store, data, f, fresh) == fresh

\* data.get(f, []) handed to the constructor: the object of the input when the
\* key is present, a new empty list otherwise
FieldOfNew(store, data, f, fresh) == IF data[f] # 0 THEN data[f] ELSE fresh

\* the fields of the class in a fixed order, to allocate the new objects
FieldOrder(cls) ==
    IF cls = "MultipleChoiceQuestion" THEN <<"options">> ELSE <<"pairs", "correct">>

\* cls.from_dict(data): the store with the objects it creates, and the question;
\* the address put aside for a field is left unused when the field takes the
\* object of the input
from_dict(cls, store, data) ==
    LET order == FieldOrder(cls)
        fresh(i) == Len(store) + i
        question == [f \in CollectionFields(cls) |->
                        LET i == CHOOSE k \in 1..Len(order) : order[k] = f
                        IN  FieldOfNew(store, data, f, fresh(i))]
        created == [i \in 1..Len(order) |->
                        IF question[order[i]] = fresh(i)
                        THEN IF data[order[i]] # 0 THEN store[data[order[i]]] ELSE <<>>
                        ELSE <<"not created">>]
    IN  [store |-> store \o created, question |-> question]

\* the input dicts: each collection key absent, or a list with no or one item
InputHeaps ==
    UNION { { [cls |-> cls, store |-> [i \in 1..Len(FieldOrder(cls)) |-> items[i]],
               data |-> [f \in CollectionFields(cls) |->
                            IF f \in present
                            THEN CHOOSE k \in 1..Len(FieldOrder(cls)) : FieldOrder(cls)[k] = f
                            ELSE 0]] :
              present \in SUBSET CollectionFields(cls),
              items \in [1..Len(FieldOrder(cls)) -> {<<>>, <<"a">>}] } :
            cls \in AliasClasses }

NoQuestion == [kind |-> "none"]

\* a dict parsed from a document, before from_dict is called on it
InitAlias ==
    /\ pc = "alias"
    /\ \E h \in InputHeaps :
          heap = [cls |-> h.cls, store |-> h.store, data |-> h.data,
                  question |-> NoQuestion,
                  original |-> Deep(h.store, h.data), built |-> NoQuestion,
                  touched |-> "nothing"]
    /\ images = {}
    /\ tree = <<>>
    /\ form = NoForm
    /\ question_text = <<>>
    /\ answers = Other
    /\ result = NoResult
    /\ subject = EmptySubject
    /\ disk = Subject_to_dict(EmptySubject)
    /\ dialog = NoDialog
    /\ failures = 0

\* question = cls.from_dict(data)
FromDict ==
    /\ pc = "alias"
    /\ heap.question = NoQuestion
    /\ LET r == from_dict(heap.cls, heap.store, heap.data)
       IN  heap' = [heap EXCEPT !.store = r.store, !.question = r.question,
                                !.built = Deep(r.store, r.question)]
    /\ UNCHANGED <<question_text, answers, result, appVars, pc, form, images, tree>>

\* question.<field>.append(...) or question.<field>[k] = v, after the construction
ChangeQuestionCollection ==
    /\ pc = "alias"
    /\ heap.question # NoQuestion
    /\ heap.touched \in {"nothing", "question"}
    /\ \E f \in CollectionFields(heap.cls) :
          /\ Len(heap.store[heap.question[f]]) < MaxItems
          /\ heap' = [heap EXCEPT !.store[heap.question[f]] = Append(@, "x"),
                                  !.touched = "question"]
    /\ UNCHANGED <<question_text, answers, result, appVars, pc, form, images, tree>>

\* data[<field>].append(...), after the construction
ChangeInputCollection ==
    /\ pc = "alias"
    /\ heap.question # NoQuestion
    /\ heap.touched \in {"nothing", "input"}
    /\ \E f \in CollectionFields(heap.cls) :
          /\ heap.data[f] # 0
          /\ Len(heap.store[heap.data[f]]) < MaxItems
          /\ heap' = [heap EXCEPT !.store[heap.data[f]] = Append(@, "x"),
                                  !.touched = "input"]
    /\ UNCHANGED <<question_text, answers, result, appVars, pc, form, images, tree>>

NextAlias ==
    \/ FromDict
    \/ ChangeQuestionCollection
    \/ ChangeInputCollection

SpecAlias == InitAlias /\ [][NextAlias]_vars

\* C21: constructing a question from a dict never changes the dict, and the
\* question holds its own copies of the lists and maps: after a change to a
\* collection of the question the input dict has the value it had, and after
\* a change to a collection of the input dict the question has the value it
\* was built with.
C21_DefensiveCopies ==
    (pc = "alias" /\ heap.question # NoQuestion) =>
        /\ heap.touched \in {"nothing", "question"} =>
              Deep(heap.store, heap.data) = heap.original
        /\ heap.touched \in {"nothing", "input"} =>
              Deep(heap.store, heap.question) = heap.built

(***************************************************************************)
(* TreeManager.refresh_tree: the tree is cleared, each lesson of the       *)
(* Subject gets a node with the questions of that lesson below it, and a   *)
(* last node Others gets the questions with lessonId None.  The tree is    *)
(* refreshed after a subject has been loaded.                              *)
(***************************************************************************)
\* a node of the first level: its tags, and the questions added below it
TreeNode(tags, questions) == [tags |-> tags, children |-> questions]

refresh_tree(subj) ==
    [k \in 1..Len(subj.lessons) |->
        TreeNode(<<"lesson", subj.lessons[k].id>>,
                 get_questions_by_lesson(subj, subj.lessons[k].id))]
    \o <<TreeNode(<<"others">>, get_questions_by_lesson(subj, None))>>

\* MainWindow: the tree is drawn for the subject that was loaded
RefreshTree ==
    /\ pc = "loaded"
    /\ subject # NoSubject
    /\ tree' = refresh_tree(subject)
    /\ pc' = "shown"
    /\ UNCHANGED <<question_text, answers, result, appVars, form, heap, images>>

NextTree ==
    \/ Load
    \/ RefreshTree

SpecTree == InitLoad /\ [][NextTree]_vars

\* how often x is among the elements of the sequence
Occurrences(seq, x) == Cardinality({k \in 1..Len(seq) : seq[k] = x})

\* how often the question is drawn in the tree
Drawn(q) ==
    LET RECURSIVE Sum(_)
        Sum(n) == IF n = 0 THEN 0 ELSE Occurrences(tree[n].children, q) + Sum(n - 1)
    IN  Sum(Len(tree))

OthersNode == tree[Len(tree)]

DanglingQuestion(q) ==
    q.lessonId # None /\ get_lesson_by_id(subject, q.lessonId) = <<>>

\* C22: when the tree has been refreshed, every question of the Subject is
\* drawn exactly once (as often as it is in the list of questions), and a
\* question whose lessonId is not None and is the id of no lesson is drawn
\* under the node Others.
C22_DanglingUnderOthers ==
    pc = "shown" =>
        \A k \in 1..Len(subject.questions) :
            LET q == subject.questions[k]
            IN  /\ Drawn(q) = Occurrences(subject.questions, q)
                /\ DanglingQuestion(q) => Occurrences(OthersNode.children, q) > 0

(***************************************************************************)
(* Calls of QuestionValidator.validate_reordering.                         *)
(***************************************************************************)
\* the argument of the call next to the question text
ReorderingArgs(items) == [items |-> items]

\* items with and without the keys text and order
ItemPool ==
    { Restrict([text |-> t, order |-> 1], ks) :
        t \in {<<"a">>, <<"b">>, <<" ">>}, ks \in {{"text", "order"}} }
    \cup { Restrict([text |-> <<"a">>, order |-> 2], ks) :
             ks \in {{"text", "order"}, {"text"}, {"order"}} }

InitReordering ==
    /\ question_text \in McmTextPool
    /\ answers \in { ReorderingArgs(items) : items \in SeqsUpTo(ItemPool, MaxItems) }
    /\ result = NoResult
    /\ form = NoForm
    /\ subject = EmptySubject
    /\ disk = Subject_to_dict(EmptySubject)
    /\ dialog = NoDialog
    /\ failures = 0
    /\ heap = NoHeap
    /\ images = {}
    /\ tree = <<>>
    /\ pc = "reordering"

ValidateReordering ==
    /\ pc = "reordering"
    /\ result = NoResult
    /\ result' = validate_reordering(question_text, answers.items)
    /\ UNCHANGED <<question_text, answers, appVars, pc, form, heap, images, tree>>

NextReordering == ValidateReordering

SpecReordering == InitReordering /\ [][NextReordering]_vars

\* the call was made on a non-blank text and at least 2 items with non-blank text
ReorderingCalledOnGoodItems ==
    /\ pc = "reordering" /\ result # NoResult
    /\ ~IsBlank(question_text)
    /\ Len(answers.items) >= 2
    /\ \A i \in 1..Len(answers.items) : ~ItemTextEmpty(answers.items[i])

\* C23: validate_reordering returns invalid whenever two items of the list have
\* the same text, for every non-blank question text and every list of at least
\* 2 items with non-blank text.
C23_DuplicateItemsRejected ==
    ( /\ ReorderingCalledOnGoodItems
      /\ \E i, j \in 1..Len(answers.items) :
            i # j /\ ItemGet(answers.items[i], "text") = ItemGet(answers.items[j], "text") )
    => ~result.ok

(***************************************************************************)
(* Calls of QuestionValidator.validate_question_by_type for every type of  *)
(* the vocabulary, with the keyword arguments of the type.                 *)
(***************************************************************************)
QUESTION_TYPES ==
    <<"multiple_choice", "multiple_choice_multiple", "true_false", "fill_in_blank",
      "dropdown", "matching", "reordering", "reading_comprehension">>

\* a sub-question of a reading comprehension question
SubQuestion(question, options, correct) ==
    [question |-> question, options |-> options, correct |-> correct]

\* a pair of a matching question
Pair(id, country, capital) == [id |-> id, country |-> country, capital |-> capital]

\* the keyword arguments next to the question text, by type
KwargsPool(question_type) ==
    CASE question_type = "multiple_choice" ->
            { [options |-> o, correct_index |-> c] :
                o \in {<<<<"a">>, <<"b">>>>, <<<<"a">>>>}, c \in {0, 2} }
      [] question_type = "multiple_choice_multiple" ->
            { McmArgs(<<<<"a">>, <<"b">>>>, c) : c \in {<<0>>, <<0, 0>>} }
      [] question_type = "true_false" -> { [correct |-> c] : c \in {0, 1, 2} }
      [] question_type = "fill_in_blank" -> {List(l) : l \in AnswerListPool}
      [] question_type = "dropdown" -> {CapitalDropdowns}
      [] question_type = "matching" ->
            { [pairs |-> ps] :
                ps \in { <<Pair(<<"1">>, <<"a">>, <<"b">>), Pair(<<"2">>, <<"c">>, <<"d">>)>>,
                         <<Pair(<<"1">>, <<"a">>, <<"b">>), Pair(<<"2">>, <<"c">>, <<" ">>)>>,
                         <<Pair(<<"1">>, <<"a">>, <<"b">>)>> } }
      [] question_type = "reordering" ->
            { ReorderingArgs(items) : items \in SeqsUpTo(ItemPool, MaxItems) }
      [] question_type = "reading_comprehension" ->
            { [sub_questions |-> sqs] :
                sqs \in { <<>>,
                          <<SubQuestion(<<"s">>, <<<<"a">>, <<"b">>>>, 0)>>,
                          <<SubQuestion(<<"s">>, <<<<"a">>, <<"b">>>>, 2)>>,
                          <<SubQuestion(<<"s">>, <<<<"a">>>>, 0)>>,
                          <<[question |-> <<"s">>, options |-> <<<<"a">>, <<"b">>>>]>> } }
      [] OTHER -> {Other}

\* the types of the calls: the vocabulary and a type outside it
CalledTypes == Range(QUESTION_TYPES) \cup {"essay"}

InitByType ==
    /\ question_text \in McmTextPool
    /\ answers \in { [question_type |-> t, kwargs |-> k] :
                       t \in CalledTypes, k \in UNION {KwargsPool(u) : u \in CalledTypes} }
    /\ answers.kwargs \in KwargsPool(answers.question_type)
    /\ result = NoResult
    /\ form = NoForm
    /\ subject = EmptySubject
    /\ disk = Subject_to_dict(EmptySubject)
    /\ dialog = NoDialog
    /\ failures = 0
    /\ heap = NoHeap
    /\ images = {}
    /\ tree = <<>>
    /\ pc = "by type"

ValidateByType ==
    /\ pc = "by type"
    /\ result = NoResult
    /\ result' = validate_question_by_type(answers.question_type, question_text,
                                           answers.kwargs)
    /\ UNCHANGED <<question_text, answers, appVars, pc, form, heap, images, tree>>

NextByType == ValidateByType

SpecByType == InitByType /\ [][NextByType]_vars

\* the call returned a pair (is_valid, error_message): no exception left it
ReturnedPair == result.ok \in BOOLEAN /\ result.msg # "raise ValueError"

\* C24: for every type of QUESTION_TYPES, dropdown included,
\* validate_question_by_type calls a validator of that type and returns a pair
\* (is_valid, error_message): the type is not reported as unknown and no
\* exception leaves the call.
C24_ValidatorPerType ==
    ( /\ pc = "by type" /\ result # NoResult
      /\ answers.question_type \in Range(QUESTION_TYPES) )
    => /\ answers.question_type \in ValidatorTypes
       /\ result.msg # "Unknown question type"
       /\ ReturnedPair

(***************************************************************************)
(* The ids of questions over a sequence of add-question and                *)
(* remove-question operations on a Subject.  An added question gets the id *)
(* that get_next_question_id returns; result holds the id returned last.   *)
(***************************************************************************)
MaxIds == 6

\* the value get_next_question_id returned
ReturnedId(question_id) == [ok |-> TRUE, msg |-> "next id", slot |-> <<>>, idx |-> question_id]

InitIds ==
    /\ subject = EmptySubject
    /\ disk = Subject_to_dict(EmptySubject)
    /\ dialog = NoDialog
    /\ failures = 0
    /\ heap = NoHeap
    /\ images = {}
    /\ tree = <<>>
    /\ question_text = <<>>
    /\ answers = Other
    /\ result = NoResult
    /\ form = NoForm
    /\ pc = "ids"

\* Subject.add_question of a question with id = Subject.get_next_question_id()
AddQuestionWithNextId ==
    /\ pc = "ids"
    /\ LET question_id == get_next_question_id(subject)
       IN  /\ question_id <= MaxIds
           /\ result' = ReturnedId(question_id)
           /\ subject' = add_question(subject,
                             CreateQuestion("true_false", question_id, None,
                                            [question |-> "\"q\"", correct |-> "0"]))
    /\ UNCHANGED <<question_text, answers, disk, dialog, failures, pc, form, heap, images,
                   tree>>

\* Subject.remove_question
RemoveQuestion ==
    /\ pc = "ids"
    /\ \E question_id \in 1..MaxIds :
          /\ get_question_by_id(subject, question_id) # 0
          /\ subject' = remove_question(subject, question_id)
    /\ UNCHANGED <<question_text, answers, result, disk, dialog, failures, pc, form, heap,
                   images, tree>>

NextIds ==
    \/ AddQuestionWithNextId
    \/ RemoveQuestion

SpecIds == InitIds /\ [][NextIds]_vars

\* C25: over every sequence of add-question and remove-question operations,
\* the id given to a new question is greater than the id given to the question
\* added before it, and so than every id given earlier: the id of a question
\* that was deleted is never given again.
C25_IdsNeverReused ==
    [][(pc = "ids" /\ Len(subject'.questions) > Len(subject.questions)) =>
          /\ result'.idx = subject'.questions[Len(subject'.questions)].id
          /\ result'.idx > result.idx]_vars

(***************************************************************************)
(* One add-question dialog: the dialog has been opened on a subject, and   *)
(* the author fills the form in and presses Save until the dialog closes.  *)
(***************************************************************************)
\* the subjects the dialog is opened on: lessons added by Add Lesson, and
\* questions added by an earlier dialog
RetrySubjects ==
    LET lessons == [n \in 1..MaxLessonNum |->
                       Lesson(<<DEFAULT_LESSON_ID_PREFIX>> \o zfill(str(n), 3),
                              IF n = 1 THEN "Capitals" ELSE OTHERS_CATEGORY, TRUE)]
    IN  { Subject(SubSeq(lessons, 1, nl),
                  [k \in 1..nq |->
                      CreateQuestion("true_false", k, lesson_id,
                                     [question |-> "\"q\"", correct |-> "0"])]) :
            nl \in 0..MaxLessonNum, nq \in 0..MaxQuestionId,
            lesson_id \in {None} \cup LessonIds }

InitRetry ==
    /\ subject \in RetrySubjects
    /\ \A k \in 1..Len(subject.questions) :
          subject.questions[k].lessonId \in {None} \cup Range(LessonIdList(subject))
    /\ disk = Subject_to_dict(subject)
    /\ dialog = [kind |-> "question", mode |-> "add", question_id |-> 0,
                 lesson_names |-> <<OTHERS_CATEGORY>> \o LessonNameList(subject),
                 lesson_ids |-> <<None>> \o LessonIdList(subject)]
    /\ form = NewForm
    /\ failures = 0
    /\ heap = NoHeap
    /\ images = {}
    /\ tree = <<>>
    /\ question_text = <<>>
    /\ answers = Other
    /\ result = NoResult
    /\ pc = "app"

NextRetry ==
    \/ EditForm
    \/ QuestionDialogSave

SpecRetry == InitRetry /\ [][NextRetry]_vars

\* the add dialog is open and no save has changed the file since it was
\* opened: the document in the file is the Subject the dialog was opened on
AddDialogOnStoredSubject ==
    /\ dialog.kind = "question" /\ dialog.mode = "add"
    /\ disk.kind = "object"

\* C26: while Save is pressed again after failed saves of the add dialog, the
\* Subject never gets more than one question beyond those it had when the
\* dialog was opened (those of the document in the file).
C26_RetryAddsOne ==
    [][AddDialogOnStoredSubject =>
          Len(subject'.questions) <= Len(DocQuestions) + 1]_vars

(***************************************************************************)
(* One edit-question dialog: the dialog has been opened on a question of   *)
(* the subject, and the author changes the form and presses Save.          *)
(***************************************************************************)
\* MainWindow.toggle_question_enabled on the questions marked in flip
toggle_question_enabled(subj, flip) ==
    [subj EXCEPT !.questions =
        [k \in 1..Len(@) |-> IF k \in flip THEN [@[k] EXCEPT !.enabled = ~@] ELSE @[k]]]

\* the subjects the dialog is opened on: questions added by earlier dialogs,
\* some of them disabled since
EditSubjects ==
    { toggle_question_enabled(subj, flip) :
        subj \in {s \in RetrySubjects : s.questions # <<>>},
        flip \in SUBSET (1..MaxQuestionId) }

InitEdit ==
    /\ subject \in EditSubjects
    /\ \A k \in 1..Len(subject.questions) :
          subject.questions[k].lessonId \in {None} \cup Range(LessonIdList(subject))
    /\ disk = Subject_to_dict(subject)
    /\ \E question_id \in QuestionIds :
          /\ get_question_by_id(subject, question_id) # 0
          /\ dialog = [kind |-> "question", mode |-> "edit", question_id |-> question_id,
                       lesson_names |-> <<OTHERS_CATEGORY>> \o LessonNameList(subject),
                       lesson_ids |-> <<None>> \o LessonIdList(subject)]
          /\ form = LoadedForm(subject.questions[get_question_by_id(subject, question_id)])
    /\ failures = 0
    /\ heap = NoHeap
    /\ images = {}
    /\ tree = <<>>
    /\ question_text = <<>>
    /\ answers = Other
    /\ result = NoResult
    /\ pc = "app"

NextEdit ==
    \/ EditForm
    \/ QuestionDialogSave

SpecEdit == InitEdit /\ [][NextEdit]_vars

\* the step is a Save of the edit dialog that ended well (the dialog closed)
EditSaved ==
    /\ dialog.kind = "question" /\ dialog.mode = "edit"
    /\ dialog' = NoDialog

\* C27: after a successful Save of the edit dialog the question edited has the
\* id, the position and the enabled flag it had before, and every other
\* question is unchanged.
C27_EditInPlace ==
    [][EditSaved =>
          LET i == get_question_by_id(subject, dialog.question_id)
          IN  /\ Len(subject'.questions) = Len(subject.questions)
              /\ \A k \in 1..Len(subject.questions) :
                    IF k = i
                    THEN /\ subject'.questions[k].id = subject.questions[k].id
                         /\ subject'.questions[k].enabled = subject.questions[k].enabled
                    ELSE subject'.questions[k] = subject.questions[k]]_vars

(***************************************************************************)
(* Deleting questions that have image files.  A file of the images folder  *)
(* is named q<id>_<part>; the delete handlers find the files of a question *)
(* by that prefix.                                                         *)
(***************************************************************************)
ImageParts == {"question", "option_0"}

\* image_helper.copy_image_to_subject: the file of a part of a question
ImageFile(question_id, part) == [question_id |-> question_id, part |-> part]

InitImages ==
    /\ subject \in RetrySubjects
    /\ \A k \in 1..Len(subject.questions) :
          subject.questions[k].lessonId \in {None} \cup Range(LessonIdList(subject))
    /\ images \in SUBSET {ImageFile(i, part) : i \in QuestionIds, part \in ImageParts}
    /\ \A f \in images : get_question_by_id(subject, f.question_id) # 0
    /\ disk = Subject_to_dict(subject)
    /\ dialog = NoDialog
    /\ failures = 0
    /\ heap = NoHeap
    /\ tree = <<>>
    /\ question_text = <<>>
    /\ answers = Other
    /\ result = NoResult
    /\ form = NoForm
    /\ pc = "app"

NextImages ==
    \/ DeleteQuestion
    \/ BulkDeleteQuestions

SpecImages == InitImages /\ [][NextImages]_vars

\* C28: in a single delete and in a bulk delete, an image file is removed only
\* in a step whose save of the document succeeded, and the Subject saved has
\* no question of the file's id; when the save fails every file stays.
C28_ImagesFollowDocument ==
    [][\A f \in images :
          f \notin images' =>
              /\ failures' = failures
              /\ disk' = Subject_to_dict(subject')
              /\ get_question_by_id(subject', f.question_id) = 0]_vars

(***************************************************************************)
(* Claim about the next lesson id (checked under Spec).                    *)
(***************************************************************************)
\* C29: in every state reached from the empty Subject by adding and deleting
\* lessons and adding, moving and deleting questions, get_next_lesson_id is
\* the id of no lesson of the Subject and the lessonId of no question, and the
\* ids of the lessons are pairwise distinct.
C29_FreshLessonId ==
    pc = "app" =>
        LET fresh == get_next_lesson_id(subject)
        IN  /\ \A k \in 1..Len(subject.lessons) : subject.lessons[k].id # fresh
            /\ \A k \in 1..Len(subject.questions) : subject.questions[k].lessonId # fresh
            /\ \A j, k \in 1..Len(subject.lessons) :
                  subject.lessons[j].id = subject.lessons[k].id => j = k

\* the next id is the id of a lesson that was deleted (the delete was not
\* written: the file still has the lesson and a question in it), and the
\* question is in the Subject still
C29_Witness ==
    /\ pc = "app" /\ disk.kind = "object"
    /\ \E k \in 1..Len(DocLessons) :
          DocLessons[k].id = get_next_lesson_id(subject)
    /\ \E k \in 1..Len(DocQuestions) :
          /\ "lessonId" \in DOMAIN DocQuestions[k]
          /\ DocQuestions[k].lessonId = get_next_lesson_id(subject)
          /\ get_question_by_id(subject, DocQuestions[k].id) # 0

(***************************************************************************)
(* Claim about loading a document and saving it again (checked under       *)
(* SpecLoad).                                                              *)
(***************************************************************************)
\* the step is the save of the Subject that was loaded, and the file was written
SavedAfterLoad == pc = "loaded" /\ pc' = "saved"

\* the question object names a type of the vocabulary
OfVocabulary(question) ==
    "type" \in DOMAIN question /\ question.type \in Range(QUESTION_TYPES)

\* C30: when a document is loaded and saved again with no edit, every
\* type-specific field of a question object that has a non-null value in the
\* loaded document is in the question object written, with the same value, for
\* every type of the vocabulary (dropdown, with its text and dropdowns, included).
C30_RoundTripKeepsPayload ==
    [][SavedAfterLoad =>
          /\ Len(disk'.questions.items) = Len(DocQuestions)
          /\ \A k \in 1..Len(DocQuestions) :
                OfVocabulary(DocQuestions[k]) =>
                    \A f \in DOMAIN DocQuestions[k] \ EnvelopeFields :
                        DocQuestions[k][f] # "null" =>
                            /\ f \in DOMAIN disk'.questions.items[k]
                            /\ disk'.questions.items[k][f] = DocQuestions[k][f]]_vars

====
